---- MODULE Spec2Model ----
(***************************************************************************)
(* Model of the "Send Raw to KOReader" plugin (src/send_raw/ui.py):        *)
(*   - the batch worker send_raw_books_worker and its transport            *)
(*     SmartDeviceTransport, run on a background thread;                   *)
(*   - the operator command delete_remote_metadata_file with its crafted   *)
(*     SEND_BOOK exchange _purge_remote_metadata_file, run on the          *)
(*     interaction thread.                                                 *)
(* The device driver (upload_books, get_file, delete_books, _call_client,  *)
(* _send_byte_string) is the environment: each call may return any of the  *)
(* values enumerated below, or raise.                                      *)
(***************************************************************************)
EXTENDS Integers, Sequences, FiniteSets, TLC

VARIABLES
    tasks,            \* the task list handed to the worker (dicts of _build_tasks)
    md5,              \* md5[k]: task k's metadata object carries an md5 attribute
    device,           \* truthiness of the device object / a smart device is connected
    abort,            \* the abort Event's flag
    abortSetAt,       \* history: how many tasks had completed, and where the worker
                      \* stood, when the abort flag was set
    wpc,              \* worker's position in send_raw_books_worker
    i,                \* loop index of "for i, task in enumerate(tasks)"
    success_titles,
    failed_list,
    upload_locations,
    upload_metadata,
    error_reports,    \* transport._error_reports
    notifications,    \* the (frac, msg) pairs put on the notifications queue
    uploadCalls,      \* device side: the tasks upload_books was called for, in order
    uploadReplies,    \* device side: what each upload_books call returned or raised
    can_send_ok,      \* the device attribute can_send_ok_to_sendbook
    sync_lock,        \* holder of device.sync_lock
    rpc,              \* interaction thread's position in delete_remote_metadata_file
    target,           \* result of _locate_remote_metadata_file
    lpath,            \* _purge_remote_metadata_file's local variable lpath
    cleaned_path,     \* value returned by _purge_remote_metadata_file
    caught,           \* the exception caught by "except Exception as err" (line 682)
    fetchCalls,       \* device side: the lpaths get_file was called with
    sendBookCalls,    \* device side: the SEND_BOOK requests received
    callReply,        \* what _call_client returned for the SEND_BOOK request
    streamed,         \* device side: the payloads _send_byte_string sent
    deleteCalls,      \* device side: the paths delete_books was called with
    dialogs,          \* the dialogs shown to the operator by the command
    books,            \* _build_tasks: the library's record of each requested book id
    requested_fmt,    \* _build_tasks: the format the caller asked for, or None
    preferred_formats, \* prefs["preferred_formats"]
    bpc,              \* position in _build_tasks
    bidx,             \* number of book ids the loop of _build_tasks has handled
    selected,         \* target_fmt of each handled book id (None: no format)
    built,            \* _build_tasks: tasks
    skipped,          \* _build_tasks: failed (the skip reasons)
    name_in,          \* _safe_filename: the argument name
    name_out,         \* _safe_filename: the value returned
    spc,              \* position in _safe_filename
    mi,               \* prepare_metadata_for_device: the source record, as passed
    has_deepcopy,     \* hasattr(mi, "deepcopy_metadata")
    extension,        \* prepare_metadata_for_device: the argument extension
    file_size,        \* prepare_metadata_for_device: the argument file_size
    file_md5,         \* prepare_metadata_for_device: the argument file_md5
    mi_after,         \* the source object once the call has returned
    sanitized,        \* the object prepare_metadata_for_device returned
    mpc,              \* position in prepare_metadata_for_device
    job,              \* the finished ThreadedJob handed to job_finished
    gui,              \* what the GUI and the device driver do when asked
    jpc,              \* position in job_finished
    shown,            \* job_finished: the lists unpacked from job.result
    booklist,         \* the device's main BookList: the lpaths it holds
    syncCalls,        \* the calls _sync_books_to_device made, in order
    jdialogs,         \* the dialogs job_finished showed
    dirs,             \* which of cache_root, config_dir, device_drivers exist
    files,            \* the directories that hold a ".metadata.calibre" file
    lpc,              \* position in _delete_local_metadata_files
    metadata_files,   \* the paths discovered, in discovery order
    ridx,             \* number of discovered paths the removal loop has handled
    deleted,          \* _delete_local_metadata_files: deleted
    errors,           \* _delete_local_metadata_files: errors
    vanished,         \* history: files another process removed after discovery
                      \* and before any removal attempt
    purges,           \* history: the (deleted, errors) pairs of finished purges
    smart_device,     \* _get_smart_device() finds a connected smart device
    device_info,      \* dm.get_current_device_information() is not None
    device_jobs,      \* jm.has_device_jobs(): calibre runs or queues a DeviceJob
    commands,         \* number of send commands the operator has issued
    submitted,        \* number of ThreadedJobs handed to run_threaded_job
    queue,            \* job server: the 'Send Raw Books' jobs waiting, in order
    running,          \* job server: the jobs whose worker thread is alive
    startedBeside,    \* history: for each started job, the jobs running then
    sdialogs,         \* the dialogs send_raw_selected showed
    inflight,         \* the running jobs whose worker has called upload_books
    finished,         \* history: the ended jobs, in the order their callbacks
                      \* were dispatched to the GUI thread
    handled,          \* number of ended jobs job_finished has been called for
    merges,           \* history: for each catalog merge, its job and the jobs
                      \* that were in flight then
    template,         \* _build_filename: the argument template, as its parts
    fmi,              \* _build_filename: authors, title, series, series_index
    ffmt,             \* _build_filename: the argument fmt
    filename,         \* what _build_filename returned, or the exception it raised
    fpc               \* position in _build_filename

batchVars == <<tasks, md5, device, abort, abortSetAt, wpc, i, success_titles,
               failed_list, upload_locations, upload_metadata, error_reports,
               notifications, uploadCalls, uploadReplies>>

resetVars == <<can_send_ok, sync_lock, rpc, target, lpath, cleaned_path, caught,
               fetchCalls, sendBookCalls, callReply, streamed, deleteCalls,
               dialogs>>

buildVars == <<books, requested_fmt, preferred_formats, bpc, bidx, selected,
               built, skipped>>

nameVars == <<name_in, name_out, spc>>

metaVars == <<mi, has_deepcopy, extension, file_size, file_md5, mi_after,
              sanitized, mpc>>

syncVars == <<job, gui, jpc, shown, booklist, syncCalls, jdialogs>>

localVars == <<dirs, files, lpc, metadata_files, ridx, deleted, errors,
               vanished, purges>>

sendVars == <<smart_device, device_info, device_jobs, commands, submitted,
              queue, running, startedBeside, sdialogs, inflight, finished,
              handled, merges>>

fileVars == <<template, fmi, ffmt, filename, fpc>>

\* The components other than the worker and the remote reset.
extVars == <<buildVars, nameVars, metaVars, syncVars, localVars, sendVars,
             fileVars>>

\* What a component leaves alone: everything but its own variables.
frameBuild ==
    <<batchVars, resetVars, nameVars, metaVars, syncVars, localVars, sendVars,
      fileVars>>
frameName ==
    <<batchVars, resetVars, buildVars, metaVars, syncVars, localVars, sendVars,
      fileVars>>
frameMeta ==
    <<batchVars, resetVars, buildVars, nameVars, syncVars, localVars, sendVars,
      fileVars>>
frameSync ==
    <<batchVars, resetVars, buildVars, nameVars, metaVars, localVars, sendVars,
      fileVars>>
frameLocal ==
    <<batchVars, resetVars, buildVars, nameVars, metaVars, syncVars, sendVars,
      fileVars>>
frameSend ==
    <<batchVars, resetVars, buildVars, nameVars, metaVars, syncVars, localVars,
      fileVars>>
frameFile ==
    <<batchVars, resetVars, buildVars, nameVars, metaVars, syncVars, localVars,
      sendVars>>

vars == <<batchVars, resetVars, extVars>>

----------------------------------------------------------------------------
(* Bounds *)

MaxTasks == 3

\* Task-list bound of the specification that interleaves the worker with the
\* operator's remote reset.
MaxSessionTasks == 1

----------------------------------------------------------------------------
(* Python values, as far as the code inspects them *)

PyNone == [t |-> "None"]
PyStr(s) == [t |-> "str", s |-> s]
PyInt(n) == [t |-> "int", n |-> n]
PyTuple(s) == [t |-> "tuple", v |-> s]
PyList(s) == [t |-> "list", v |-> s]

\* Python truth value testing: None, empty containers, "" and 0 are falsy.
Truthy(x) ==
    CASE x.t = "None" -> FALSE
      [] x.t = "str" -> x.s # ""
      [] x.t = "int" -> x.n # 0
      [] x.t \in {"tuple", "list"} -> Len(x.v) > 0

\* A key a dict does not hold; Get is dict.get(key, default).
Absent == [t |-> "absent"]
Get(field, default) == IF field = Absent THEN default ELSE field

\* No SEND_BOOK request has been made yet.
NotCalled == [opcode |-> "not called", message |-> Absent, lpath |-> Absent]

----------------------------------------------------------------------------
(* Tasks *)

\* One task dict as _build_tasks assembles it; verify_md5 is the same preference
\* value for every task of a batch.
Task(k, verify) ==
    [title |-> "T" \o ToString(k), name |-> "f" \o ToString(k), size |-> k,
     verify_md5 |-> verify]

TaskList(n, verify) == [k \in 1..n |-> Task(k, verify)]

total == Len(tasks)

\* Mutant: the task list is walked from its end.
CurrentTask_Reversed == total - i

\* "for i, task in enumerate(tasks)": the position of the current task.
CurrentTask == i + 1

task == tasks[CurrentTask]

----------------------------------------------------------------------------
(* Exceptions the driver may raise, and str(exc) as a sequence of tokens *)

Exceptions ==
    { [type |-> "OSError", arg |-> <<"timed", "out">>],
      [type |-> "KeyError", arg |-> <<"extension">>],
      [type |-> "KeyError", arg |-> <<"uuid">>] }

\* str(KeyError(k)) is repr(k): the key in quotes; other exceptions print their
\* argument.
Str(exc) ==
    IF exc.type = "KeyError"
    THEN [k \in 1..Len(exc.arg) |-> "'" \o exc.arg[k] \o "'"]
    ELSE exc.arg

\* "'extension'" in message or "KeyError" in message
HasCorruptionSignature(message) ==
    \E k \in 1..Len(message) : message[k] \in {"'extension'", "KeyError"}

\* _record_error: the report appended to _error_reports
ErrorReport(title, exc) ==
    [title |-> title, message |-> Str(exc),
     note |-> HasCorruptionSignature(Str(exc))]

----------------------------------------------------------------------------
(* The device's answers to upload_books for one task *)

UploadReturns(tk) ==
    { PyNone,
      PyList(<<>>),
      PyList(<<PyNone>>),
      PyList(<<PyTuple(<<PyNone, PyInt(-1)>>)>>),
      PyList(<<PyTuple(<<PyStr(tk.name), PyInt(tk.size)>>)>>) }

Unconfirmed == <<"transfer", "unconfirmed">>

\* Mutant: "if paths:", the first element is not looked at.
Confirmed_NoFirstCheck(paths) == Truthy(paths)

\* "if paths and paths[0]"
Confirmed(paths) == Truthy(paths) /\ Truthy(paths.v[1])

\* send_single_book's return value when upload_books returned paths
SendSingleBookResult(paths) ==
    IF Confirmed(paths)
    THEN [is_ok |-> TRUE, err_msg |-> PyNone, location |-> paths.v[1]]
    ELSE [is_ok |-> FALSE, err_msg |-> Unconfirmed, location |-> PyNone]

----------------------------------------------------------------------------
(* Progress fractions: float(i) / total as the pair <<i, total>> *)

Frac(n, d) == <<n, d>>
One == Frac(1, 1)
FracLeq(a, b) == a[1] * b[2] <= b[1] * a[2]

Progress(frac, msg) == [frac |-> frac, msg |-> msg]

----------------------------------------------------------------------------
(* The other components at rest *)

OffBuild ==
    /\ books = <<>>
    /\ requested_fmt = PyNone
    /\ preferred_formats = <<>>
    /\ bpc = "off"
    /\ bidx = 0
    /\ selected = <<>>
    /\ built = <<>>
    /\ skipped = <<>>

OffName == name_in = PyNone /\ name_out = PyNone /\ spc = "off"

OffMeta ==
    /\ mi = PyNone
    /\ has_deepcopy = FALSE
    /\ extension = PyNone
    /\ file_size = PyNone
    /\ file_md5 = PyNone
    /\ mi_after = PyNone
    /\ sanitized = PyNone
    /\ mpc = "off"

OffSync ==
    /\ job = PyNone
    /\ gui = PyNone
    /\ jpc = "off"
    /\ shown = PyNone
    /\ booklist = <<>>
    /\ syncCalls = <<>>
    /\ jdialogs = <<>>

OffLocal ==
    /\ dirs = {}
    /\ files = {}
    /\ lpc = "off"
    /\ metadata_files = <<>>
    /\ ridx = 0
    /\ deleted = <<>>
    /\ errors = <<>>
    /\ vanished = {}
    /\ purges = <<>>

OffSend ==
    /\ smart_device = FALSE
    /\ device_info = FALSE
    /\ device_jobs = FALSE
    /\ commands = 0
    /\ submitted = 0
    /\ queue = <<>>
    /\ running = {}
    /\ startedBeside = <<>>
    /\ sdialogs = <<>>
    /\ inflight = {}
    /\ finished = <<>>
    /\ handled = 0
    /\ merges = <<>>

OffFile ==
    /\ template = <<>>
    /\ fmi = PyNone
    /\ ffmt = PyNone
    /\ filename = PyNone
    /\ fpc = "off"

OffExt ==
    /\ OffBuild /\ OffName /\ OffMeta /\ OffSync /\ OffLocal /\ OffSend
    /\ OffFile

----------------------------------------------------------------------------
(* Initial states *)

InitBatch(n) ==
    /\ \E m \in 0..n, verify \in BOOLEAN : tasks = TaskList(m, verify)
    /\ md5 = [k \in 1..Len(tasks) |-> FALSE]
    /\ device \in BOOLEAN
    /\ abort = FALSE
    /\ abortSetAt = [completed |-> -1, wpc |-> "unset"]
    /\ wpc = "start"
    /\ i = 0
    /\ success_titles = <<>>
    /\ failed_list = <<>>
    /\ upload_locations = <<>>
    /\ upload_metadata = <<>>
    /\ error_reports = <<>>
    /\ notifications = <<>>
    /\ uploadCalls = <<>>
    /\ uploadReplies = <<>>

InitReset(start) ==
    /\ can_send_ok \in {"absent", "false", "true"}
    /\ sync_lock = "free"
    /\ rpc = start
    /\ target = PyNone
    /\ lpath = PyNone
    /\ cleaned_path = PyNone
    /\ caught = PyNone
    /\ fetchCalls = <<>>
    /\ sendBookCalls = <<>>
    /\ callReply = NotCalled
    /\ streamed = <<>>
    /\ deleteCalls = <<>>
    /\ dialogs = <<>>

\* No batch is running and none was started.
OffBatch ==
    /\ tasks = <<>>
    /\ md5 = <<>>
    /\ device = TRUE
    /\ abort = FALSE
    /\ abortSetAt = [completed |-> -1, wpc |-> "unset"]
    /\ wpc = "off"
    /\ i = 0
    /\ success_titles = <<>>
    /\ failed_list = <<>>
    /\ upload_locations = <<>>
    /\ upload_metadata = <<>>
    /\ error_reports = <<>>
    /\ notifications = <<>>
    /\ uploadCalls = <<>>
    /\ uploadReplies = <<>>

\* The operator never issues the remote reset command.
OffReset == InitReset("off") /\ can_send_ok = "true"

\* A batch on its own: the operator never issues the remote reset command.
Init ==
    InitBatch(MaxTasks) /\ InitReset("off") /\ can_send_ok = "true" /\ OffExt

\* A batch and the operator's remote reset command on the same device.
InitSession == InitBatch(MaxSessionTasks) /\ InitReset("idle") /\ OffExt

----------------------------------------------------------------------------
(* send_raw_books_worker *)

\* Mutant: the worker does not test the device before the loop.
WorkerStart_NoDeviceCheck ==
    /\ wpc = "start"
    /\ wpc' = "check"
    /\ UNCHANGED <<tasks, md5, device, abort, abortSetAt, i, success_titles,
                   failed_list, upload_locations, upload_metadata,
                   error_reports, notifications, uploadCalls, uploadReplies,
                   resetVars, extVars>>

\* transport = SmartDeviceTransport(device); total = len(tasks);
\* if not device: raise RuntimeError
WorkerStart ==
    /\ wpc = "start"
    /\ wpc' = IF device THEN "check" ELSE "raised"
    /\ UNCHANGED <<tasks, md5, device, abort, abortSetAt, i, success_titles,
                   failed_list, upload_locations, upload_metadata,
                   error_reports, notifications, uploadCalls, uploadReplies,
                   resetVars, extVars>>

\* Mutant: the break on abort returns without the final progress update.
LoopExit_NoFinalOnAbort ==
    /\ wpc = "check"
    /\ i >= total \/ abort
    /\ notifications' = IF i >= total
                        THEN Append(notifications, [frac |-> <<1, 1>>,
                                                    msg |-> "done"])
                        ELSE notifications
    /\ wpc' = "done"
    /\ UNCHANGED <<tasks, md5, device, abort, abortSetAt, i, success_titles,
                   failed_list, upload_locations, upload_metadata,
                   error_reports, uploadCalls, uploadReplies, resetVars, extVars>>

\* The loop has no further task, or the abort flag is seen at the task boundary:
\* leave the loop, put the final progress update and return the result tuple.
LoopExit ==
    /\ wpc = "check"
    /\ i >= total \/ abort
    /\ notifications' = Append(notifications, Progress(One, "done"))
    /\ wpc' = "done"
    /\ UNCHANGED <<tasks, md5, device, abort, abortSetAt, i, success_titles,
                   failed_list, upload_locations, upload_metadata,
                   error_reports, uploadCalls, uploadReplies, resetVars, extVars>>

\* Mutant: the loop does not look at the abort flag.
LoopNext_IgnoresAbort ==
    /\ wpc = "check"
    /\ i < total
    /\ wpc' = IF task.verify_md5 THEN "hash" ELSE "send"
    /\ UNCHANGED <<tasks, md5, device, abort, abortSetAt, i, success_titles,
                   failed_list, upload_locations, upload_metadata,
                   error_reports, notifications, uploadCalls, uploadReplies,
                   resetVars, extVars>>

\* Next task, abort flag not set at the boundary check.
LoopNext ==
    /\ wpc = "check"
    /\ i < total
    /\ ~abort
    /\ wpc' = IF task.verify_md5 THEN "hash" ELSE "send"
    /\ UNCHANGED <<tasks, md5, device, abort, abortSetAt, i, success_titles,
                   failed_list, upload_locations, upload_metadata,
                   error_reports, notifications, uploadCalls, uploadReplies,
                   resetVars, extVars>>

\* Mutant: an exception of calculate_md5 is not caught and ends the worker.
HashTask_RaiseEndsWorker ==
    /\ wpc = "hash"
    /\ notifications' = Append(notifications, Progress(Frac(i, total), "md5"))
    /\ \E hashed \in BOOLEAN :
          /\ md5' = [md5 EXCEPT ![CurrentTask] = hashed \/ @]
          /\ wpc' = IF hashed THEN "send" ELSE "raised"
    /\ UNCHANGED <<tasks, device, abort, abortSetAt, i, success_titles,
                   failed_list, upload_locations, upload_metadata,
                   error_reports, uploadCalls, uploadReplies, resetVars, extVars>>

\* task.get("verify_md5"): progress update, then calculate_md5, which either
\* returns (the hash is attached to the task's metadata) or raises (logged only).
HashTask ==
    /\ wpc = "hash"
    /\ notifications' = Append(notifications, Progress(Frac(i, total), "md5"))
    /\ \E hashed \in BOOLEAN : md5' = [md5 EXCEPT ![CurrentTask] = hashed \/ @]
    /\ wpc' = "send"
    /\ UNCHANGED <<tasks, device, abort, abortSetAt, i, success_titles,
                   failed_list, upload_locations, upload_metadata,
                   error_reports, uploadCalls, uploadReplies, resetVars, extVars>>

\* Progress update, then send_single_book calls device.upload_books for the task.
SendBegin ==
    /\ wpc = "send"
    /\ notifications' = Append(notifications, Progress(Frac(i, total), "send"))
    /\ uploadCalls' = Append(uploadCalls, CurrentTask)
    /\ wpc' = "uploading"
    /\ UNCHANGED <<tasks, md5, device, abort, abortSetAt, i, success_titles,
                   failed_list, upload_locations, upload_metadata,
                   error_reports, uploadReplies, resetVars, extVars>>

\* Mutant: the location and the metadata are staged whatever the outcome.
Classify_StagesFailures(r) ==
    /\ IF r.is_ok
       THEN /\ success_titles' = Append(success_titles, task.title)
            /\ UNCHANGED failed_list
       ELSE /\ failed_list' =
                   Append(failed_list, <<task.title, r.err_msg>>)
            /\ UNCHANGED success_titles
    /\ upload_locations' = Append(upload_locations, r.location)
    /\ upload_metadata' = Append(upload_metadata, CurrentTask)
    /\ i' = i + 1
    /\ wpc' = "check"

\* The worker's classification of send_single_book's result r for the task.
Classify(r) ==
    /\ IF r.is_ok
       THEN /\ success_titles' = Append(success_titles, task.title)
            /\ IF Truthy(r.location)
               THEN /\ upload_locations' = Append(upload_locations, r.location)
                    /\ upload_metadata' = Append(upload_metadata, CurrentTask)
               ELSE UNCHANGED <<upload_locations, upload_metadata>>
            /\ UNCHANGED failed_list
       ELSE /\ failed_list' =
                   Append(failed_list, <<task.title, r.err_msg>>)
            /\ UNCHANGED <<success_titles, upload_locations, upload_metadata>>
    /\ i' = i + 1
    /\ wpc' = "check"

\* Mutant: an unconfirmed transfer is counted nowhere.
UploadReturn_DropsUnconfirmed ==
    /\ wpc = "uploading"
    /\ \E paths \in UploadReturns(task) :
           /\ uploadReplies' =
                  Append(uploadReplies, [kind |-> "return", value |-> paths])
           /\ IF Confirmed(paths)
              THEN Classify(SendSingleBookResult(paths))
              ELSE /\ i' = i + 1
                   /\ wpc' = "check"
                   /\ UNCHANGED <<success_titles, failed_list,
                                  upload_locations, upload_metadata>>
    /\ UNCHANGED <<tasks, md5, device, abort, abortSetAt, error_reports,
                   notifications, uploadCalls, resetVars, extVars>>

\* upload_books returns: send_single_book inspects the confirmation.
UploadReturn ==
    /\ wpc = "uploading"
    /\ \E paths \in UploadReturns(task) :
           /\ uploadReplies' =
                  Append(uploadReplies, [kind |-> "return", value |-> paths])
           /\ Classify(SendSingleBookResult(paths))
    /\ UNCHANGED <<tasks, md5, device, abort, abortSetAt, error_reports,
                   notifications, uploadCalls, resetVars, extVars>>

\* Mutant: send_single_book has no except branch, the exception ends the worker.
UploadRaise_Propagates ==
    /\ wpc = "uploading"
    /\ \E exc \in Exceptions :
           uploadReplies' =
               Append(uploadReplies, [kind |-> "raise", value |-> exc])
    /\ wpc' = "raised"
    /\ UNCHANGED <<tasks, md5, device, abort, abortSetAt, i, success_titles,
                   failed_list, upload_locations, upload_metadata,
                   error_reports, notifications, uploadCalls, resetVars, extVars>>

\* upload_books raises: the except branch records the error and returns
\* (False, str(e), None).
UploadRaise ==
    /\ wpc = "uploading"
    /\ \E exc \in Exceptions :
           /\ uploadReplies' =
                  Append(uploadReplies, [kind |-> "raise", value |-> exc])
           /\ error_reports' =
                  Append(error_reports, ErrorReport(task.title, exc))
           /\ Classify([is_ok |-> FALSE, err_msg |-> Str(exc),
                        location |-> PyNone])
    /\ UNCHANGED <<tasks, md5, device, abort, abortSetAt, notifications,
                   uploadCalls, resetVars, extVars>>

\* The job manager sets the abort Event while the worker runs.
SetAbort ==
    /\ ~abort
    /\ wpc \notin {"done", "raised"}
    /\ abort' = TRUE
    /\ abortSetAt' = [completed |-> i, wpc |-> wpc]
    /\ UNCHANGED <<tasks, md5, device, wpc, i, success_titles, failed_list,
                   upload_locations, upload_metadata, error_reports,
                   notifications, uploadCalls, uploadReplies, resetVars, extVars>>

----------------------------------------------------------------------------
(* delete_remote_metadata_file, on the interaction thread *)

Candidates == <<".metadata.calibre", "metadata.calibre">>

Payload == "[]"

\* wait_for_ack = getattr(device, "can_send_ok_to_sendbook", False)
WaitForAck == can_send_ok = "true"

\* What the device may answer to SEND_BOOK when a response is awaited.
Responses ==
    [opcode : {"OK", "ERROR"},
     message : {Absent, PyStr("locked")},
     lpath : {Absent, PyStr("moved.calibre")}]

\* _call_client's return value when no response is awaited.
NoResponse == [opcode |-> "None", message |-> Absent, lpath |-> Absent]

RuntimeError(msg) == [type |-> "RuntimeError", arg |-> <<msg>>]

\* The field map of the SEND_BOOK request.
SendBookRequest(p) ==
    [lpath |-> p, length |-> Len(Payload), thisBook |-> 0, totalBooks |-> 1,
     willStreamBooks |-> TRUE, willStreamBinary |-> TRUE,
     wantsSendOkToSendbook |-> WaitForAck, canSupportLpathChanges |-> TRUE,
     wait_for_response |-> WaitForAck]

\* Mutant: the reply's opcode is not checked.
ReplyError_NoCheck(reply) == PyNone

\* Lines 749-752: the exception raised on the reply, or PyNone.
ReplyError(reply) ==
    IF WaitForAck /\ reply.opcode = "ERROR"
    THEN RuntimeError(Get(reply.message, PyStr("SEND_BOOK failed")).s)
    ELSE PyNone

\* Mutant: the lpath of the acknowledgement is not taken.
ReplyLpath_Ignored(reply, p) == p

\* Line 752: lpath after the reply.
ReplyLpath(reply, p) == IF WaitForAck THEN Get(reply.lpath, p) ELSE p

\* The operator picks the command: _get_smart_device, then the first fetch.
ResetTrigger ==
    /\ rpc = "idle"
    /\ IF device
       THEN /\ rpc' = "fetching"
            /\ fetchCalls' = Append(fetchCalls, Candidates[1])
            /\ UNCHANGED dialogs
       ELSE /\ rpc' = "done"
            /\ dialogs' = Append(dialogs, [kind |-> "not_connected"])
            /\ UNCHANGED fetchCalls
    /\ UNCHANGED <<batchVars, extVars, can_send_ok, sync_lock, target, lpath,
                   cleaned_path, caught, sendBookCalls, callReply, streamed,
                   deleteCalls>>

\* get_file returns: the candidate exists; the operator is asked to confirm.
FetchFound ==
    /\ rpc = "fetching"
    /\ target' = PyStr(fetchCalls[Len(fetchCalls)])
    /\ rpc' = "confirm"
    /\ UNCHANGED <<batchVars, extVars, can_send_ok, sync_lock, lpath, cleaned_path,
                   caught, fetchCalls, sendBookCalls, callReply, streamed,
                   deleteCalls, dialogs>>

\* Mutant: the search gives up after the first candidate.
FetchMissing_GivesUp ==
    /\ rpc = "fetching"
    /\ rpc' = "done"
    /\ dialogs' = Append(dialogs, [kind |-> "not_found"])
    /\ UNCHANGED <<batchVars, extVars, can_send_ok, sync_lock, target, lpath,
                   cleaned_path, caught, sendBookCalls, callReply, streamed,
                   deleteCalls, fetchCalls>>

\* get_file raises: try the next candidate, or report that none was found.
FetchMissing ==
    /\ rpc = "fetching"
    /\ IF Len(fetchCalls) < Len(Candidates)
       THEN /\ fetchCalls' = Append(fetchCalls, Candidates[Len(fetchCalls) + 1])
            /\ UNCHANGED <<rpc, dialogs>>
       ELSE /\ rpc' = "done"
            /\ dialogs' = Append(dialogs, [kind |-> "not_found"])
            /\ UNCHANGED fetchCalls
    /\ UNCHANGED <<batchVars, extVars, can_send_ok, sync_lock, target, lpath,
                   cleaned_path, caught, sendBookCalls, callReply, streamed,
                   deleteCalls>>

\* QMessageBox.question: the operator declines.
ConfirmNo ==
    /\ rpc = "confirm"
    /\ rpc' = "done"
    /\ UNCHANGED <<batchVars, extVars, can_send_ok, sync_lock, target, lpath,
                   cleaned_path, caught, fetchCalls, sendBookCalls, callReply,
                   streamed, deleteCalls, dialogs>>

\* The operator confirms: _purge_remote_metadata_file(device, target) is entered.
ConfirmYes ==
    /\ rpc = "confirm"
    /\ lpath' = target
    /\ rpc' = "acquire"
    /\ UNCHANGED <<batchVars, extVars, can_send_ok, sync_lock, target, cleaned_path,
                   caught, fetchCalls, sendBookCalls, callReply, streamed,
                   deleteCalls, dialogs>>

\* with device.sync_lock:
PurgeAcquire ==
    /\ rpc = "acquire"
    /\ sync_lock = "free"
    /\ sync_lock' = "reset"
    /\ rpc' = "locked"
    /\ UNCHANGED <<batchVars, extVars, can_send_ok, target, lpath, cleaned_path, caught,
                   fetchCalls, sendBookCalls, callReply, streamed, deleteCalls,
                   dialogs>>

\* device._call_client("SEND_BOOK", {...}) sends the request.
PurgeCall ==
    /\ rpc = "locked"
    /\ sendBookCalls' = Append(sendBookCalls, SendBookRequest(lpath))
    /\ rpc' = "calling"
    /\ UNCHANGED <<batchVars, extVars, can_send_ok, sync_lock, target, lpath,
                   cleaned_path, caught, fetchCalls, callReply, streamed,
                   deleteCalls, dialogs>>

\* Mutant: acquire and release by hand, the raise skips the release.
PurgeOnReply_LeaksLock(reply) ==
    /\ callReply' = reply
    /\ IF WaitForAck /\ reply.opcode = "ERROR"
       THEN /\ caught' = [type |-> "RuntimeError", arg |-> <<"SEND_BOOK">>]
            /\ rpc' = "handler"
            /\ UNCHANGED <<lpath, sync_lock>>
       ELSE /\ lpath' = IF WaitForAck /\ reply.lpath # Absent
                        THEN reply.lpath ELSE lpath
            /\ rpc' = "streaming"
            /\ UNCHANGED <<caught, sync_lock>>

\* What the purge does with _call_client's return value: raise on ERROR (the
\* with statement releases the lock), else take the lpath and start streaming.
PurgeOnReply(reply) ==
    /\ callReply' = reply
    /\ IF ReplyError(reply) # PyNone
       THEN /\ caught' = ReplyError(reply)
            /\ sync_lock' = "free"
            /\ rpc' = "handler"
            /\ UNCHANGED lpath
       ELSE /\ lpath' = ReplyLpath(reply, lpath)
            /\ rpc' = "streaming"
            /\ UNCHANGED <<caught, sync_lock>>

\* _call_client returns.
PurgeCallReturn ==
    /\ rpc = "calling"
    /\ \E reply \in IF WaitForAck THEN Responses ELSE {NoResponse} :
           PurgeOnReply(reply)
    /\ UNCHANGED <<batchVars, extVars, can_send_ok, target, cleaned_path, fetchCalls,
                   sendBookCalls, streamed, deleteCalls, dialogs>>

\* _call_client raises (the channel failed): the lock is released.
PurgeCallRaise ==
    /\ rpc = "calling"
    /\ \E exc \in Exceptions : caught' = exc
    /\ sync_lock' = "free"
    /\ rpc' = "handler"
    /\ UNCHANGED <<batchVars, extVars, can_send_ok, target, lpath, cleaned_path,
                   fetchCalls, sendBookCalls, callReply, streamed, deleteCalls,
                   dialogs>>

\* Mutant: the delete names the first candidate, whichever file was located.
PurgeStreamed_DeletesFirstCandidate ==
    /\ rpc = "streaming"
    /\ streamed' = Append(streamed, Payload)
    /\ sync_lock' = "free"
    /\ cleaned_path' = lpath
    /\ deleteCalls' = Append(deleteCalls, PyStr(Candidates[1]))
    /\ rpc' = "deleting"
    /\ UNCHANGED <<batchVars, extVars, can_send_ok, target, lpath, caught, fetchCalls,
                   sendBookCalls, callReply, dialogs>>

\* _send_byte_string returns: the with block ends, the purge returns lpath and
\* delete_books([cleaned_path]) is called.
PurgeStreamed ==
    /\ rpc = "streaming"
    /\ streamed' = Append(streamed, Payload)
    /\ sync_lock' = "free"
    /\ cleaned_path' = lpath
    /\ deleteCalls' = Append(deleteCalls, lpath)
    /\ rpc' = "deleting"
    /\ UNCHANGED <<batchVars, extVars, can_send_ok, target, lpath, caught, fetchCalls,
                   sendBookCalls, callReply, dialogs>>

\* _send_byte_string raises: the lock is released.
PurgeStreamRaise ==
    /\ rpc = "streaming"
    /\ \E exc \in Exceptions : caught' = exc
    /\ sync_lock' = "free"
    /\ rpc' = "handler"
    /\ UNCHANGED <<batchVars, extVars, can_send_ok, target, lpath, cleaned_path,
                   fetchCalls, sendBookCalls, callReply, streamed, deleteCalls,
                   dialogs>>

\* delete_books returns: the completion dialog is shown.
DeleteReturn ==
    /\ rpc = "deleting"
    /\ dialogs' = Append(dialogs, [kind |-> "deleted"])
    /\ rpc' = "done"
    /\ UNCHANGED <<batchVars, extVars, can_send_ok, sync_lock, target, lpath,
                   cleaned_path, caught, fetchCalls, sendBookCalls, callReply,
                   streamed, deleteCalls>>

\* delete_books raises.
DeleteRaise ==
    /\ rpc = "deleting"
    /\ \E exc \in Exceptions : caught' = exc
    /\ rpc' = "handler"
    /\ UNCHANGED <<batchVars, extVars, can_send_ok, sync_lock, target, lpath,
                   cleaned_path, fetchCalls, sendBookCalls, callReply, streamed,
                   deleteCalls, dialogs>>

\* SendRawAction defines no _record_error (only SmartDeviceTransport does).
ActionHasRecordError == FALSE

\* except Exception as err: self._record_error(...), then the error dialog.
\* The attribute lookup on self fails, so the AttributeError leaves the command
\* before the dialog is shown.
ExceptHandler ==
    /\ rpc = "handler"
    /\ IF ActionHasRecordError
       THEN /\ dialogs' = Append(dialogs, [kind |-> "delete_failed",
                                           det_msg |-> Str(caught)])
            /\ rpc' = "done"
       ELSE /\ rpc' = "escaped"
            /\ UNCHANGED dialogs
    /\ UNCHANGED <<batchVars, extVars, can_send_ok, sync_lock, target, lpath,
                   cleaned_path, caught, fetchCalls, sendBookCalls, callReply,
                   streamed, deleteCalls>>

----------------------------------------------------------------------------

(* _build_tasks: format selection and skip reasons *)

MaxBooks == 2

\* str.upper() and str.lower() on the format codes the model uses.
Upper(x) ==
    CASE x = "epub" -> "EPUB"
      [] x = "mobi" -> "MOBI"
      [] x = "pdf" -> "PDF"
      [] x = "azw3" -> "AZW3"
      [] x = "txt" -> "TXT"
      [] OTHER -> x

Lower(x) ==
    CASE x = "EPUB" -> "epub"
      [] x = "MOBI" -> "mobi"
      [] x = "PDF" -> "pdf"
      [] x = "AZW3" -> "azw3"
      [] x = "TXT" -> "txt"
      [] OTHER -> x

\* What db.formats(book_id) may return: None, or the book's format codes.
FormatLists ==
    { PyNone, PyList(<<>>), PyList(<<"EPUB", "MOBI">>), PyList(<<"MOBI">>),
      PyList(<<"TXT">>) }

RequestedFormats == {PyNone, PyStr("epub"), PyStr("MOBI")}

PreferenceLists == {<<"AZW3", "EPUB", "PDF">>, <<"mobi", "epub">>}

\* The library's record of book id k: its formats, and whether the file of a
\* format exists on disk (format_abspath and os.path.exists).
Book(k, formats, on_disk) ==
    [book_id |-> k, title |-> "B" \o ToString(k), formats |-> formats,
     on_disk |-> on_disk]

BookLists(n) ==
    UNION { {bs \in [1..m -> [formats : FormatLists, on_disk : BOOLEAN]] : TRUE}
            : m \in 0..n }

HasFormat(formats, fmt) == \E k \in 1..Len(formats.v) : formats.v[k] = fmt

\* Mutant: the book's formats are walked instead of the preference list.
RECURSIVE FirstPreferred_BookOrder(_, _, _)
FirstPreferred_BookOrder(preferred, formats, k) ==
    IF k > Len(formats.v) THEN PyNone
    ELSE IF \E j \in 1..Len(preferred) : Upper(preferred[j]) = formats.v[k]
         THEN PyStr(formats.v[k])
         ELSE FirstPreferred_BookOrder(preferred, formats, k + 1)

\* "for fmt in preferred_formats: if fmt.upper() in formats: ...; break",
\* from position k of the preference list on.
RECURSIVE FirstPreferred(_, _, _)
FirstPreferred(preferred, formats, k) ==
    IF k > Len(preferred) THEN PyNone
    ELSE IF HasFormat(formats, Upper(preferred[k]))
         THEN PyStr(Upper(preferred[k]))
         ELSE FirstPreferred(preferred, formats, k + 1)

\* Mutant: a requested format the book lacks falls back to the preference list.
SelectFormat_FallsBack(formats, requested, preferred) ==
    IF Truthy(requested) /\ HasFormat(formats, Upper(requested.s))
    THEN PyStr(Upper(requested.s))
    ELSE LET pick == FirstPreferred(preferred, formats, 1)
         IN  IF pick = PyNone /\ Truthy(formats)
             THEN PyStr(formats.v[1])
             ELSE pick

\* Lines 781-792: target_fmt for a book with at least one format.
SelectFormat(formats, requested, preferred) ==
    IF Truthy(requested)
    THEN IF HasFormat(formats, Upper(requested.s))
         THEN PyStr(Upper(requested.s))
         ELSE PyNone
    ELSE LET pick == FirstPreferred(preferred, formats, 1)
         IN  IF pick = PyNone /\ Truthy(formats)
             THEN PyStr(formats.v[1])
             ELSE pick

InitBuild(n) ==
    /\ \E bs \in BookLists(n) :
           books = [k \in 1..Len(bs) |->
                       Book(k, bs[k].formats, bs[k].on_disk)]
    /\ requested_fmt \in RequestedFormats
    /\ preferred_formats \in PreferenceLists
    /\ bpc = "loop"
    /\ bidx = 0
    /\ selected = <<>>
    /\ built = <<>>
    /\ skipped = <<>>

Skip(book, reason) == [title |-> book.title, reason |-> reason]

\* The task dict of lines 814-825, as far as the selection decides it.
BuiltTask(book, fmt) ==
    [book_id |-> book.book_id, title |-> book.title, format |-> fmt.s,
     extension |-> Lower(fmt.s)]

\* One pass of the loop body for the next book id.
BuildBook ==
    /\ bpc = "loop"
    /\ bidx < Len(books)
    /\ LET book == books[bidx + 1]
           fmt == IF Truthy(book.formats)
                  THEN SelectFormat(book.formats, requested_fmt,
                                    preferred_formats)
                  ELSE PyNone
       IN  /\ selected' = Append(selected, fmt)
           /\ IF ~Truthy(book.formats)
              THEN /\ skipped' = Append(skipped, Skip(book, "no formats"))
                   /\ UNCHANGED built
              ELSE IF fmt = PyNone
              THEN /\ skipped' =
                          Append(skipped, Skip(book, "no requested format"))
                   /\ UNCHANGED built
              ELSE IF ~book.on_disk
              THEN /\ skipped' = Append(skipped, Skip(book, "file missing"))
                   /\ UNCHANGED built
              ELSE /\ built' = Append(built, BuiltTask(book, fmt))
                   /\ UNCHANGED skipped
    /\ bidx' = bidx + 1
    /\ UNCHANGED <<frameBuild, books, requested_fmt,
                   preferred_formats, bpc>>

\* The loop is over: return tasks, failed.
BuildReturn ==
    /\ bpc = "loop"
    /\ bidx = Len(books)
    /\ bpc' = "done"
    /\ UNCHANGED <<frameBuild, books, requested_fmt,
                   preferred_formats, bidx, selected, built, skipped>>

InitBuildTasks ==
    /\ OffBatch
    /\ OffReset
    /\ OffName
    /\ OffMeta
    /\ OffSync
    /\ OffLocal
    /\ OffSend
    /\ OffFile
    /\ InitBuild(MaxBooks)

NextBuild == BuildBook \/ BuildReturn

SpecBuild == InitBuildTasks /\ [][NextBuild]_vars

----------------------------------------------------------------------------

(* _safe_filename *)

MaxRun == 1

NameLimit == 100

\* A str as the sequence of its characters.
Text(cs) == [t |-> "text", c |-> cs]

InvalidChars == {"<", ">", ":", "\"", "/", "\\", "|", "?", "*"}

StripChars == {".", " "}

Unknown == <<"U", "n", "k", "n", "o", "w", "n">>

NameChars == InvalidChars \cup StripChars \cup {"a", "_"}

Run(c, n) == [k \in 1..n |-> c]

\* The arguments tried: None, and every text made of a short run, a run whose
\* length is around the limit (or empty), and another short run.
Names ==
    {PyNone} \cup
    { Text(Run(a, m) \o Run(b, n) \o Run(c, q)) :
         a \in NameChars, m \in 0..MaxRun,
         b \in NameChars, n \in {0, NameLimit - 1, NameLimit, NameLimit + 1},
         c \in NameChars, q \in 0..MaxRun }

\* "for char in invalid_chars: name = name.replace(char, '_')"
ReplaceInvalid(cs) ==
    [k \in 1..Len(cs) |-> IF cs[k] \in InvalidChars THEN "_" ELSE cs[k]]

RECURSIVE LStrip(_)
LStrip(cs) ==
    IF cs # <<>> /\ Head(cs) \in StripChars THEN LStrip(Tail(cs)) ELSE cs

RECURSIVE RStrip(_)
RStrip(cs) ==
    IF cs # <<>> /\ cs[Len(cs)] \in StripChars
    THEN RStrip(SubSeq(cs, 1, Len(cs) - 1))
    ELSE cs

\* name.strip(". ")
Strip(cs) == RStrip(LStrip(cs))

\* Mutant: the name is not cut at the limit.
Truncate_Never(cs) == cs

\* "if len(name) > 100: name = name[:100]"
Truncate(cs) == IF Len(cs) > NameLimit THEN SubSeq(cs, 1, NameLimit) ELSE cs

SafeFilename(name) ==
    IF name = PyNone \/ name.c = <<>>
    THEN Text(Unknown)
    ELSE LET cut == Truncate(Strip(ReplaceInvalid(name.c)))
         IN  IF cut = <<>> THEN Text(Unknown) ELSE Text(cut)

InitName ==
    /\ name_in \in Names
    /\ name_out = PyNone
    /\ spc = "call"

\* The whole of _safe_filename.
SafeFilenameCall ==
    /\ spc = "call"
    /\ name_out' = SafeFilename(name_in)
    /\ spc' = "done"
    /\ UNCHANGED <<frameName, name_in>>

InitSafeFilename ==
    /\ OffBatch /\ OffReset /\ OffBuild /\ OffMeta /\ OffSync /\ OffLocal
    /\ OffSend
    /\ OffFile
    /\ InitName

NextName == SafeFilenameCall

SpecName == InitSafeFilename /\ [][NextName]_vars

----------------------------------------------------------------------------

(* prepare_metadata_for_device *)

MaxSize == 1

PyDict(keys) == [t |-> "dict", v |-> keys]

HasAttr(obj, attr) == obj[attr] # Absent

\* The attributes of a book record that the function reads or writes. A
\* record of the library carries none of the device fields extension, size
\* and md5: only this function and the worker set them.
SourceRecords ==
    [ uuid : {Absent, PyNone, PyStr(""), PyStr("uuid-of-source")},
      format_metadata : {Absent, PyDict(<<"EPUB">>)},
      cover_data : {Absent, PyTuple(<<PyStr("jpeg"), PyStr("bytes")>>)},
      thumbnail : {Absent, PyTuple(<<PyInt(60), PyInt(80), PyStr("bytes")>>)},
      device_collections : {Absent, PyNone, PyList(<<"Unread">>)},
      extension : {Absent},
      size : {Absent},
      md5 : {Absent} ]

TargetFormats == {"EPUB", "MOBI", "pdf"}

FileSizes == 0..MaxSize

FileHashes == {PyNone, PyStr(""), PyStr("9e107d9d372bb6826bd81d3542a419d6")}

\* str(uuid4()): some fresh, non-empty identifier.
UuidStrings == {PyStr("uuid4-a"), PyStr("uuid4-b")}

\* Mutant: the identifier is left as the source has it.
EnsureUuid_Skipped(metadata, fresh) == metadata

\* Lines 74-75.
EnsureUuid(metadata, fresh) ==
    IF ~Truthy(Get(metadata.uuid, PyNone))
    THEN [metadata EXCEPT !.uuid = fresh]
    ELSE metadata

\* Lines 55-82, applied to the object the function works on; fresh is what
\* str(uuid4()) gives if it is called.
Sanitize(metadata, ext, size, hash, fresh) ==
    LET core == [metadata EXCEPT
                    !.extension = PyStr(Lower(ext)),
                    !.size = PyInt(size),
                    !.md5 = IF Truthy(hash) THEN hash ELSE @]
        cleaned == [core EXCEPT
                    !.format_metadata =
                        IF HasAttr(core, "format_metadata")
                        THEN PyDict(<<>>) ELSE @,
                    !.cover_data =
                        IF HasAttr(core, "cover_data") THEN PyNone ELSE @,
                    !.thumbnail =
                        IF HasAttr(core, "thumbnail") THEN PyNone ELSE @]
        withUuid == EnsureUuid(cleaned, fresh)
        collections == Get(withUuid.device_collections, PyList(<<>>))
    IN  [withUuid EXCEPT
            !.device_collections =
                IF Truthy(collections) THEN collections ELSE PyList(<<>>)]

InitMeta ==
    /\ mi \in SourceRecords
    /\ has_deepcopy \in BOOLEAN
    /\ extension \in TargetFormats
    /\ file_size \in FileSizes
    /\ file_md5 \in FileHashes
    /\ mi_after = mi
    /\ sanitized = PyNone
    /\ mpc = "call"

\* The whole of prepare_metadata_for_device. With deepcopy_metadata the
\* function works on a copy; without it, on the source object itself.
PrepareMetadata ==
    /\ mpc = "call"
    /\ \E fresh \in UuidStrings :
          /\ sanitized' = Sanitize(mi, extension, file_size, file_md5, fresh)
          /\ mi_after' = IF has_deepcopy THEN mi_after ELSE sanitized'
    /\ mpc' = "done"
    /\ UNCHANGED <<frameMeta, mi, has_deepcopy, extension, file_size,
                   file_md5>>

\* Line 52: the object the function works on and returns is the source
\* object itself exactly when the source has no deepcopy_metadata.
ReturnsSourceObject == ~has_deepcopy

InitPrepareMetadata ==
    /\ OffBatch /\ OffReset /\ OffBuild /\ OffName /\ OffSync /\ OffLocal
    /\ OffSend
    /\ OffFile
    /\ InitMeta

NextMeta == PrepareMetadata

SpecMeta == InitPrepareMetadata /\ [][NextMeta]_vars

----------------------------------------------------------------------------

(* job_finished and _sync_books_to_device *)

MaxJobTasks == 2

\* What the worker returned for a batch whose task k ended as ends[k]: sent,
\* unconfirmed (send_single_book returned False) or raised (upload_books
\* raised and the error was recorded).
Positions(n, ends, kinds) ==
    SelectSeq([k \in 1..n |-> k], LAMBDA k : ends[k] \in kinds)

JobResult(n, ends) ==
    LET sent == Positions(n, ends, {"sent"})
        lost == Positions(n, ends, {"unconfirmed", "raised"})
        broke == Positions(n, ends, {"raised"})
        exc == [type |-> "OSError", arg |-> <<"timed", "out">>]
    IN  [success_titles |-> [k \in 1..Len(sent) |-> Task(sent[k], FALSE).title],
         failed_list |->
             [k \in 1..Len(lost) |->
                 <<Task(lost[k], FALSE).title,
                   IF ends[lost[k]] = "raised" THEN Str(exc) ELSE Unconfirmed>>],
         error_reports |->
             [k \in 1..Len(broke) |->
                 ErrorReport(Task(broke[k], FALSE).title, exc)],
         upload_locations |->
             [k \in 1..Len(sent) |-> PyStr(Task(sent[k], FALSE).name)],
         upload_metadata |-> sent]

\* The jobs job_finished is called with: the worker raised (failed, no
\* result), or it returned its five lists.
Jobs(n) ==
    {[failed |-> TRUE, result |-> PyNone]} \cup
    UNION { { [failed |-> FALSE, result |-> JobResult(m, ends)] :
                 ends \in [1..m -> {"sent", "unconfirmed", "raised"}] }
            : m \in 0..n }

\* What _sync_books_to_device finds: the device manager and its device, the
\* device views' BookLists, and what each call into the driver and the GUI
\* does.
Guis ==
    [ dm : {"none", "no device attribute", "device none", "device"},
      booklists : {"lists", "none", "raises"},
      add_books_to_metadata : {"absent", "returns", "raises"},
      set_books_in_library : {"absent", "returns", "raises"},
      refresh : {"returns", "raises"} ]

BookListAtStart == <<PyStr("old.epub")>>

InitSync(n) ==
    /\ job \in Jobs(n)
    /\ gui \in Guis
    /\ jpc = "start"
    /\ shown = PyNone
    /\ booklist = BookListAtStart
    /\ syncCalls = <<>>
    /\ jdialogs = <<>>

\* Lines 376-394: a failed job is reported and nothing else happens; the
\* result of any other job is unpacked.
JobFinishedEnter ==
    /\ jpc = "start"
    /\ IF job.failed
       THEN /\ jdialogs' = Append(jdialogs, [kind |-> "job failed"])
            /\ jpc' = "done"
            /\ UNCHANGED shown
       ELSE IF job.result = PyNone
       THEN /\ jpc' = "done"
            /\ UNCHANGED <<shown, jdialogs>>
       ELSE /\ shown' = job.result
            /\ jpc' = "sync"
            /\ UNCHANGED jdialogs
    /\ UNCHANGED <<frameSync, job, gui, booklist, syncCalls>>

\* add_books_to_metadata: the new lpaths are added to the BookList.
Merged(list, locations) == list \o locations

\* Mutant: an exception of the driver's merge leaves the handler.
SyncBooks_MergeEscapes ==
    /\ jpc = "sync"
    /\ LET locations == shown.upload_locations
           metadata == shown.upload_metadata
       IN  IF locations = <<>> \/ metadata = <<>>
           THEN /\ jpc' = "summary"
                /\ UNCHANGED <<booklist, syncCalls>>
           ELSE IF gui.dm # "device" \/ gui.booklists # "lists"
           THEN /\ jpc' = "summary"
                /\ syncCalls' = IF gui.dm = "device" /\ gui.booklists = "raises"
                                 THEN <<"print">> ELSE <<>>
                /\ UNCHANGED booklist
           ELSE IF gui.add_books_to_metadata = "raises"
           THEN /\ jpc' = "raised"
                /\ syncCalls' = <<"add_books_to_metadata">>
                /\ \E k \in 0..(Len(locations) - 1) :
                      booklist' = Merged(booklist, SubSeq(locations, 1, k))
           ELSE /\ jpc' = "summary"
                /\ booklist' = IF gui.add_books_to_metadata = "returns"
                                THEN Merged(booklist, locations)
                                ELSE booklist
                /\ syncCalls' =
                      (IF gui.add_books_to_metadata = "returns"
                       THEN <<"add_books_to_metadata">> ELSE <<>>)
                      \o (IF gui.set_books_in_library = "absent"
                          THEN <<>> ELSE <<"set_books_in_library">>)
                      \o (IF gui.set_books_in_library = "raises"
                          THEN <<"print">>
                          ELSE IF gui.refresh = "raises"
                          THEN <<"refresh", "print">>
                          ELSE <<"refresh">>)
    /\ UNCHANGED <<frameSync, job, gui, shown, jdialogs>>

\* The whole of _sync_books_to_device(upload_locations, upload_metadata).
SyncBooks ==
    /\ jpc = "sync"
    /\ jpc' = "summary"
    /\ LET locations == shown.upload_locations
           metadata == shown.upload_metadata
       IN  IF locations = <<>> \/ metadata = <<>>
           THEN UNCHANGED <<booklist, syncCalls>>
           ELSE IF gui.dm # "device" \/ gui.booklists # "lists"
           THEN /\ syncCalls' = IF gui.dm = "device" /\ gui.booklists = "raises"
                                 THEN <<"print">> ELSE <<>>
                /\ UNCHANGED booklist
           ELSE IF gui.add_books_to_metadata = "raises"
           THEN /\ syncCalls' = <<"add_books_to_metadata", "print">>
                /\ \E k \in 0..(Len(locations) - 1) :
                      booklist' = Merged(booklist, SubSeq(locations, 1, k))
           ELSE /\ booklist' = IF gui.add_books_to_metadata = "returns"
                                THEN Merged(booklist, locations)
                                ELSE booklist
                /\ syncCalls' =
                      (IF gui.add_books_to_metadata = "returns"
                       THEN <<"add_books_to_metadata">> ELSE <<>>)
                      \o (IF gui.set_books_in_library = "absent"
                          THEN <<>> ELSE <<"set_books_in_library">>)
                      \o (IF gui.set_books_in_library = "raises"
                          THEN <<"print">>
                          ELSE IF gui.refresh = "raises"
                          THEN <<"refresh", "print">>
                          ELSE <<"refresh">>)
    /\ UNCHANGED <<frameSync, job, gui, shown, jdialogs>>

\* Lines 399-427: the summary, shown only when something failed.
JobFinishedSummary ==
    /\ jpc = "summary"
    /\ jdialogs' =
          IF shown.failed_list # <<>> \/ shown.error_reports # <<>>
          THEN Append(jdialogs,
                      [kind |-> "finished with errors",
                       sent |-> Len(shown.success_titles),
                       not_sent |-> Len(shown.failed_list),
                       failed_list |-> shown.failed_list,
                       error_reports |-> shown.error_reports])
          ELSE jdialogs
    /\ jpc' = "done"
    /\ UNCHANGED <<frameSync, job, gui, shown, booklist, syncCalls>>

InitJobFinished ==
    /\ OffBatch /\ OffReset /\ OffBuild /\ OffName /\ OffMeta /\ OffLocal
    /\ OffSend
    /\ OffFile
    /\ InitSync(MaxJobTasks)

NextSync == JobFinishedEnter \/ SyncBooks \/ JobFinishedSummary

SpecSync == InitJobFinished /\ [][NextSync]_vars

----------------------------------------------------------------------------

(* _delete_local_metadata_files *)

MaxPurges == 2

\* The directories of the local cache: the driver's cache directory with one
\* directory below it, calibre's configuration directory, and device_drivers
\* in the configuration directory.
CacheRoot == "cache"
CacheSub == "cache/sub"
ConfigDir == "config"
DevicesPath == "config/device_drivers"

Parent(d) ==
    CASE d = CacheSub -> CacheRoot
      [] d = DevicesPath -> ConfigDir
      [] OTHER -> d

Directories == {CacheRoot, CacheSub, ConfigDir, DevicesPath}

\* os.walk(base), top down: base and the directories below it.
Walk(base) ==
    CASE base = CacheRoot -> <<CacheRoot, CacheSub>>
      [] base = ConfigDir -> <<ConfigDir, DevicesPath>>
      [] OTHER -> <<base>>

\* Lines 603-617: the bases that exist. CacheSub is never a base.
CandidateDirs == dirs \cap {CacheRoot, ConfigDir, DevicesPath}

\* The orders in which "for base in candidate_dirs" may visit a set.
Orders(S) ==
    { o \in [1..Cardinality(S) -> S] : \A a \in S : \E k \in DOMAIN o : o[k] = a }

\* The file of directory d, as the path the walk builds for it.
MetadataFile(d) == d \o "/.metadata.calibre"

\* Lines 619-623 for the bases in the order o.
RECURSIVE Discovered(_, _)
Discovered(o, k) ==
    IF k > Len(o) THEN <<>>
    ELSE LET found == SelectSeq(Walk(o[k]), LAMBDA d : d \in dirs /\ d \in files)
         IN  [j \in 1..Len(found) |-> MetadataFile(found[j])]
             \o Discovered(o, k + 1)

InitLocal ==
    /\ dirs \in {D \in SUBSET Directories : \A d \in D : Parent(d) \in D}
    /\ files \in SUBSET dirs
    /\ lpc = "discover"
    /\ metadata_files = <<>>
    /\ ridx = 0
    /\ deleted = <<>>
    /\ errors = <<>>
    /\ vanished = {}
    /\ purges = <<>>

\* Lines 593-626: the candidate directories are walked and the lists start
\* empty.
Discover ==
    /\ lpc = "discover"
    /\ \E o \in Orders(CandidateDirs) : metadata_files' = Discovered(o, 1)
    /\ ridx' = 0
    /\ deleted' = <<>>
    /\ errors' = <<>>
    /\ lpc' = "remove"
    /\ UNCHANGED <<frameLocal, dirs, files, vanished, purges>>

Handled == {metadata_files[k] : k \in 1..ridx}

\* Another process removes a file while the purge is between discovery and
\* the end of the removal loop.
Vanish ==
    /\ lpc = "remove"
    /\ \E d \in files :
          /\ files' = files \ {d}
          /\ vanished' = IF MetadataFile(d) \in Handled
                          THEN vanished
                          ELSE vanished \cup {MetadataFile(d)}
    /\ UNCHANGED <<frameLocal, dirs, lpc, metadata_files, ridx, deleted, errors,
                   purges>>

PermissionDenied == <<"Permission", "denied">>

\* Lines 627-634 for the next discovered path: os.remove removes the file,
\* raises FileNotFoundError when it is gone, or raises another OSError.
RemoveNext ==
    /\ lpc = "remove"
    /\ ridx < Len(metadata_files)
    /\ LET path == metadata_files[ridx + 1]
       IN  IF \E d \in files : MetadataFile(d) = path
           THEN \/ /\ files' = {d \in files : MetadataFile(d) # path}
                   /\ deleted' = Append(deleted, path)
                   /\ UNCHANGED errors
                \/ /\ errors' = Append(errors, <<path, PermissionDenied>>)
                   /\ UNCHANGED <<files, deleted>>
           ELSE UNCHANGED <<files, deleted, errors>>
    /\ ridx' = ridx + 1
    /\ UNCHANGED <<frameLocal, dirs, lpc, metadata_files, vanished, purges>>

\* Line 636: return deleted, errors.
PurgeReturn ==
    /\ lpc = "remove"
    /\ ridx = Len(metadata_files)
    /\ purges' = Append(purges, [deleted |-> deleted, errors |-> errors,
                                  found |-> metadata_files,
                                  vanished |-> vanished])
    /\ lpc' = "returned"
    /\ UNCHANGED <<frameLocal, dirs, files, metadata_files, ridx, deleted,
                   errors, vanished>>

\* The operator runs the command again right away.
PurgeAgain ==
    /\ lpc = "returned"
    /\ Len(purges) < MaxPurges
    /\ lpc' = "discover"
    /\ vanished' = {}
    /\ UNCHANGED <<frameLocal, dirs, files, metadata_files, ridx, deleted,
                   errors, purges>>

InitLocalPurge ==
    /\ OffBatch /\ OffReset /\ OffBuild /\ OffName /\ OffMeta /\ OffSync
    /\ OffSend
    /\ OffFile
    /\ InitLocal

NextLocal == Discover \/ Vanish \/ RemoveNext \/ PurgeReturn \/ PurgeAgain

SpecLocal == InitLocalPurge /\ [][NextLocal]_vars

----------------------------------------------------------------------------

(* send_raw_selected and the job server *)

MaxCommands == 3

InitSend ==
    /\ smart_device \in BOOLEAN
    /\ device_info \in BOOLEAN
    /\ device_jobs = FALSE
    /\ commands = 0
    /\ submitted = 0
    /\ queue = <<>>
    /\ running = {}
    /\ startedBeside = <<>>
    /\ sdialogs = <<>>
    /\ inflight = {}
    /\ finished = <<>>
    /\ handled = 0
    /\ merges = <<>>

\* _device_ready_for_send: the dialog it shows, or "ready".
DeviceReadyForSend ==
    IF ~device_info THEN "device connecting"
    ELSE IF device_jobs THEN "device syncing"
    ELSE "ready"

\* The whole of send_raw_selected: rows tells whether books are selected,
\* built whether _build_tasks returned a task, skips whether it returned a
\* skip reason. The job is handed to the job server, nothing is run here.
SendRawSelected ==
    /\ commands < MaxCommands
    /\ commands' = commands + 1
    /\ \E rows, has_tasks, skips \in BOOLEAN :
          IF ~rows
          THEN /\ sdialogs' = Append(sdialogs, "nothing selected")
               /\ UNCHANGED <<submitted, queue>>
          ELSE IF ~smart_device
          THEN /\ sdialogs' = Append(sdialogs, "device not connected")
               /\ UNCHANGED <<submitted, queue>>
          ELSE IF DeviceReadyForSend # "ready"
          THEN /\ sdialogs' = Append(sdialogs, DeviceReadyForSend)
               /\ UNCHANGED <<submitted, queue>>
          ELSE LET told == IF skips
                           THEN Append(sdialogs, "some books skipped")
                           ELSE sdialogs
               IN  IF ~has_tasks
                   THEN /\ sdialogs' = Append(told, "nothing to send")
                        /\ UNCHANGED <<submitted, queue>>
                   ELSE /\ sdialogs' = told
                        /\ submitted' = submitted + 1
                        /\ queue' = Append(queue, [job |-> submitted + 1,
                                                    beside |-> running])
    /\ UNCHANGED <<frameSend, smart_device, device_info, device_jobs, running,
                   startedBeside, inflight, finished, handled, merges>>

\* Mutant: the job server starts a waiting job whatever is running.
ServerRunOnce_NoTypeLimit ==
    /\ queue # <<>>
    /\ running' = running \cup {Head(queue).job}
    /\ queue' = Tail(queue)
    /\ startedBeside' =
          Append(startedBeside, [job |-> Head(queue).job, beside |-> running])
    /\ UNCHANGED <<frameSend, smart_device, device_info, device_jobs, commands,
                   submitted, sdialogs, inflight, finished, handled, merges>>

\* run_threaded_job hands the job to calibre's threaded job server, which
\* starts a waiting job in a thread of its own only while fewer jobs of its
\* type than its max_concurrent_count are running. Every job here has the
\* type "Send Raw Books" and the default max_concurrent_count of one.
ServerRunOnce ==
    /\ queue # <<>>
    /\ running = {}
    /\ running' = running \cup {Head(queue).job}
    /\ queue' = Tail(queue)
    /\ startedBeside' =
          Append(startedBeside, [job |-> Head(queue).job, beside |-> running])
    /\ UNCHANGED <<frameSend, smart_device, device_info, device_jobs, commands,
                   submitted, sdialogs, inflight, finished, handled, merges>>

\* A running worker reaches its first upload_books call (line 184).
WorkerUploads ==
    /\ \E j \in running \ inflight : inflight' = inflight \cup {j}
    /\ UNCHANGED <<frameSend, smart_device, device_info, device_jobs, commands,
                   submitted, queue, running, startedBeside, sdialogs,
                   finished, handled, merges>>

\* send_raw_books_worker returns or raises: the job's thread ends and the
\* job's callback, Dispatcher(self.job_finished), is queued for the GUI
\* thread. The worker raises only before its first upload (lines 155-156);
\* it has something staged only if it has uploaded.
WorkerEnds ==
    /\ \E j \in running, failed, staged \in BOOLEAN :
          /\ failed => j \notin inflight
          /\ staged => j \in inflight
          /\ running' = running \ {j}
          /\ inflight' = inflight \ {j}
          /\ finished' = Append(finished, [job |-> j, failed |-> failed,
                                           staged |-> staged])
    /\ UNCHANGED <<frameSend, smart_device, device_info, device_jobs, commands,
                   submitted, queue, startedBeside, sdialogs, handled, merges>>

\* The GUI thread runs job_finished for the next ended job: a failed job is
\* reported (lines 376-383); the staged pairs of any other job are merged
\* into the BookLists by _sync_books_to_device (lines 451-459).
JobFinished ==
    /\ handled < Len(finished)
    /\ handled' = handled + 1
    /\ LET done == finished[handled + 1]
       IN  IF done.failed
           THEN /\ sdialogs' = Append(sdialogs, "job failed")
                /\ UNCHANGED merges
           ELSE /\ merges' = IF done.staged /\ smart_device
                             THEN Append(merges, [job |-> done.job,
                                                  beside |-> inflight])
                             ELSE merges
                /\ UNCHANGED sdialogs
    /\ UNCHANGED <<frameSend, smart_device, device_info, device_jobs, commands,
                   submitted, queue, running, startedBeside, inflight,
                   finished>>

\* calibre starts or ends a device job of its own; the device's information
\* finishes loading.
DeviceJobChange ==
    /\ smart_device
    /\ device_jobs' = ~device_jobs
    /\ UNCHANGED <<frameSend, smart_device, device_info, commands, submitted,
                   queue, running, startedBeside, sdialogs, inflight, finished,
                   handled, merges>>

DeviceInfoLoaded ==
    /\ smart_device
    /\ ~device_info
    /\ device_info' = TRUE
    /\ UNCHANGED <<frameSend, smart_device, device_jobs, commands, submitted,
                   queue, running, startedBeside, sdialogs, inflight, finished,
                   handled, merges>>

InitSendCommand ==
    /\ OffBatch /\ OffReset /\ OffBuild /\ OffName /\ OffMeta /\ OffSync
    /\ OffLocal
    /\ OffFile
    /\ InitSend

NextSend ==
    \/ SendRawSelected
    \/ ServerRunOnce
    \/ WorkerUploads
    \/ WorkerEnds
    \/ JobFinished
    \/ DeviceJobChange
    \/ DeviceInfoLoaded

SpecSend == InitSendCommand /\ [][NextSend]_vars

----------------------------------------------------------------------------

(* _build_filename *)

\* The parts of a template string: literal text and replacement fields.
Lit(cs) == [part |-> "literal", c |-> cs]
Named(name) == [part |-> "named", name |-> name]        \* {name}
Positional == [part |-> "positional"]                   \* {} or {0}
AttrOf(name) == [part |-> "attribute", name |-> name]   \* {name.missing}
ItemOf(name, n) == [part |-> "item", name |-> name, n |-> n]  \* {name[n]}
BadSpec(name) == [part |-> "spec", name |-> name]       \* {name:d}
OpenBrace == [part |-> "open brace"]                    \* a "{" never closed

Dash == <<" ", "-", " ">>

\* prefs["filename_template"]: any text the operator typed.
Templates ==
    { <<Named("author"), Lit(Dash), Named("title")>>,
      <<Named("series"), Lit(<<" ">>), Named("series_index"), Lit(Dash),
        Named("title")>>,
      <<Named("author"), Lit(<<"/">>), Named("title")>>,
      <<Lit(<<"b", "o", "o", "k", "?">>)>>,
      <<Named("publisher"), Lit(Dash), Named("title")>>,
      <<Positional, Lit(Dash), Named("title")>>,
      <<Named("title"), AttrOf("author")>>,
      <<ItemOf("title", 0), Lit(Dash), Named("title")>>,
      <<ItemOf("title", NameLimit), Lit(Dash), Named("title")>>,
      <<Named("author"), BadSpec("title")>>,
      <<Named("author"), Lit(Dash), OpenBrace>> }

\* The fields of the book record that _build_filename reads.
BookFields ==
    [ authors : {<<>>, <<<<"a">>>>, <<Run("a", NameLimit), <<"x">>>>,
                 <<<<"a", ":", "b">>>>},
      title : {PyNone, Text(<<"t">>), Text(Run("t", NameLimit + MaxRun)),
               Text(<<".", ".">>)},
      series : {PyNone, Text(<<"s", "/", "1">>)},
      series_index : {PyNone, PyInt(2)} ]

\* str(int(n)) for the series indexes used.
Digits(n) == IF n = 2 THEN <<"2">> ELSE <<"0">>

\* The keyword arguments of template.format(...), lines 838-841.
FormatArgs(m) ==
    [ author |-> SafeFilename(IF m.authors # <<>> THEN Text(m.authors[1])
                              ELSE Text(Unknown)).c,
      title |-> SafeFilename(IF m.title # PyNone /\ m.title.c # <<>>
                             THEN m.title ELSE Text(Unknown)).c,
      series |-> SafeFilename(IF m.series # PyNone /\ m.series.c # <<>>
                              THEN m.series ELSE Text(<<>>)).c,
      series_index |-> IF Truthy(Get(m.series_index, PyNone))
                       THEN Digits(m.series_index.n) ELSE <<>> ]

Formatted(cs) == [ok |-> TRUE, c |-> cs]

Raises(type) == [ok |-> FALSE, type |-> type]

\* What one part contributes to str.format called with keyword arguments
\* only: its text, or the exception it raises.
FormatPart(p, args) ==
    CASE p.part = "literal" -> Formatted(p.c)
      [] p.part = "named" ->
            IF p.name \in DOMAIN args THEN Formatted(args[p.name])
            ELSE Raises("KeyError")
      [] p.part = "positional" -> Raises("IndexError")
      [] p.part = "attribute" ->
            IF p.name \in DOMAIN args THEN Raises("AttributeError")
            ELSE Raises("KeyError")
      [] p.part = "item" ->
            IF p.name \notin DOMAIN args THEN Raises("KeyError")
            ELSE IF p.n + 1 \in 1..Len(args[p.name])
            THEN Formatted(<<args[p.name][p.n + 1]>>)
            ELSE Raises("IndexError")
      [] p.part = "spec" ->
            IF p.name \in DOMAIN args THEN Raises("ValueError")
            ELSE Raises("KeyError")
      [] p.part = "open brace" -> Raises("ValueError")

\* template.format(**args) from part k on: the parts are handled left to
\* right and the first exception ends the call.
RECURSIVE Format(_, _, _)
Format(parts, k, args) ==
    IF k > Len(parts) THEN Formatted(<<>>)
    ELSE LET first == FormatPart(parts[k], args)
         IN  IF ~first.ok THEN first
             ELSE LET rest == Format(parts, k + 1, args)
                  IN  IF rest.ok THEN Formatted(first.c \o rest.c) ELSE rest

\* except (KeyError, ValueError)
CaughtByFallback == {"KeyError", "ValueError"}

\* Lines 836-846: the file name without and with its extension, or the
\* exception that leaves _build_filename.
BuildFilename(parts, m, fmt) ==
    LET args == FormatArgs(m)
        made == Format(parts, 1, args)
    IN  IF made.ok
        THEN [kind |-> "returned", stem |-> made.c, ext |-> Lower(fmt),
              fallback |-> FALSE]
        ELSE IF made.type \in CaughtByFallback
        THEN [kind |-> "returned", stem |-> args.author \o Dash \o args.title,
              ext |-> Lower(fmt), fallback |-> TRUE]
        ELSE [kind |-> "raised", type |-> made.type]

InitFile ==
    /\ template \in Templates
    /\ fmi \in BookFields
    /\ ffmt \in {"EPUB", "MOBI"}
    /\ filename = PyNone
    /\ fpc = "call"

\* The whole of _build_filename.
BuildFilenameCall ==
    /\ fpc = "call"
    /\ filename' = BuildFilename(template, fmi, ffmt)
    /\ fpc' = "done"
    /\ UNCHANGED <<frameFile, template, fmi, ffmt>>

InitBuildFilename ==
    /\ OffBatch /\ OffReset /\ OffBuild /\ OffName /\ OffMeta /\ OffSync
    /\ OffLocal /\ OffSend
    /\ InitFile

NextFile == BuildFilenameCall

SpecFile == InitBuildFilename /\ [][NextFile]_vars

----------------------------------------------------------------------------

Next ==
    \/ WorkerStart
    \/ LoopExit
    \/ LoopNext
    \/ HashTask
    \/ SendBegin
    \/ UploadReturn
    \/ UploadRaise
    \/ SetAbort

Spec == Init /\ [][Next]_vars

NextSession ==
    \/ Next
    \/ ResetTrigger
    \/ FetchFound
    \/ FetchMissing
    \/ ConfirmNo
    \/ ConfirmYes
    \/ PurgeAcquire
    \/ PurgeCall
    \/ PurgeCallReturn
    \/ PurgeCallRaise
    \/ PurgeStreamed
    \/ PurgeStreamRaise
    \/ DeleteReturn
    \/ DeleteRaise
    \/ ExceptHandler

SpecSession == InitSession /\ [][NextSession]_vars

----------------------------------------------------------------------------
(* Properties of the batch worker, checked under Spec *)

Range(s) == {s[k] : k \in 1..Len(s)}

Title(k) == tasks[k].title

\* The position in the task list of the task with the given title.
TaskOf(title) == CHOOSE k \in 1..total : Title(k) = title

StrictlyIncreasing(s) == \A j, k \in 1..Len(s) : j < k => s[j] < s[k]

Outcomes == Len(success_titles) + Len(failed_list)

Returned(k, paths) == uploadReplies[k] = [kind |-> "return", value |-> paths]

UnconfirmedPair == PyList(<<PyTuple(<<PyNone, PyInt(-1)>>)>>)

ConfirmedPair(k) ==
    PyList(<<PyTuple(<<PyStr(tasks[k].name), PyInt(tasks[k].size)>>)>>)

\* C1: a task whose upload_books call returns [(None, -1)] without raising is
\* reported as failed with the reason "transfer unconfirmed": it is in the
\* failed list and not in the succeeded list, and no location is staged for it.
C1_UnconfirmedPairFails ==
    \A k \in 1..Len(uploadReplies) :
        Returned(k, UnconfirmedPair) =>
            /\ <<Title(k), Unconfirmed>> \in Range(failed_list)
            /\ Title(k) \notin Range(success_titles)
            /\ k \notin Range(upload_metadata)

\* C2: every task whose upload raised is in the failed list with str(exc), at
\* once and whatever happened to the tasks before it; every task answered with
\* a real (lpath, length) pair is in the succeeded list; and a run that is not
\* cancelled ends with every task attempted exactly once, in order, one
\* outcome per task and a last progress update of 1.0.
C2_PartialFailureIndependent ==
    /\ \A k \in 1..Len(uploadReplies) :
           /\ uploadReplies[k].kind = "raise" =>
                  /\ <<Title(k), Str(uploadReplies[k].value)>>
                         \in Range(failed_list)
                  /\ Title(k) \notin Range(success_titles)
           /\ Returned(k, ConfirmedPair(k)) =>
                  /\ Title(k) \in Range(success_titles)
                  /\ \A f \in Range(failed_list) : f[1] # Title(k)
    /\ wpc = "raised" => ~device
    /\ (wpc = "done" /\ ~abort) =>
           /\ uploadCalls = [k \in 1..total |-> k]
           /\ Len(uploadReplies) = total
           /\ Outcomes = total
           /\ notifications[Len(notifications)].frac = One

\* C2 witness: three tasks, the second raised, the first and third succeeded.
C2_Witness ==
    /\ wpc = "done"
    /\ ~abort
    /\ total = 3
    /\ Returned(1, ConfirmedPair(1))
    /\ uploadReplies[2].kind = "raise"
    /\ Returned(3, ConfirmedPair(3))
    /\ success_titles = <<Title(1), Title(3)>>
    /\ Len(failed_list) = 1

\* The positions of the worker between the boundary check of a task and the
\* start of its upload.
PastBoundary == {"hash", "send"}

\* C3 as stated: when the abort flag is set after exactly k tasks completed,
\* the worker returns exactly k outcomes and issues no further upload, unless
\* the upload of the next task had already started, which is then completed.
C3_Original ==
    (wpc = "done" /\ abort) =>
        LET k == IF abortSetAt.wpc = "uploading"
                 THEN abortSetAt.completed + 1
                 ELSE abortSetAt.completed
        IN  Outcomes = k /\ Len(uploadCalls) = k

\* C3 amended: the flag is looked at only in the boundary check before each
\* task. Set while the worker is before that check (k tasks completed), the
\* worker returns exactly k outcomes and uploads nothing more; set after the
\* check of task k+1 has passed (during its hashing, its progress update or
\* its upload), task k+1 is completed and recorded and the worker returns
\* k+1 outcomes; no later task is attempted in either case.
C3_CancelAtBoundary ==
    (wpc = "done" /\ abort) =>
        LET k == IF abortSetAt.wpc \in PastBoundary \cup {"uploading"}
                 THEN abortSetAt.completed + 1
                 ELSE abortSetAt.completed
        IN  /\ Outcomes = k
            /\ uploadCalls = [j \in 1..k |-> j]
            /\ k <= total

\* C3 witness: cancelled at the boundary after task 1 of 3.
C3_Witness ==
    /\ wpc = "done"
    /\ total = 3
    /\ abortSetAt = [completed |-> 1, wpc |-> "check"]
    /\ Outcomes = 1
    /\ uploadCalls = <<1>>

FalsyConfirmations == {PyNone, PyList(<<>>), PyList(<<PyNone>>)}

\* C7: a task whose upload_books call returns None, an empty list or a list
\* whose first element is falsy is reported as failed with the reason
\* "transfer unconfirmed", is not in the succeeded list, gets no error report
\* and is not staged for catalog sync.
C7_FalsyConfirmationFails ==
    \A k \in 1..Len(uploadReplies) :
        (uploadReplies[k].kind = "return"
            /\ uploadReplies[k].value \in FalsyConfirmations) =>
            /\ <<Title(k), Unconfirmed>> \in Range(failed_list)
            /\ Title(k) \notin Range(success_titles)
            /\ \A r \in Range(error_reports) : r.title # Title(k)
            /\ k \notin Range(upload_metadata)

\* C7 witness: all three falsy confirmations were returned in one batch.
C7_Witness ==
    /\ wpc = "done"
    /\ total = 3
    /\ Len(uploadReplies) = 3
    /\ Returned(1, PyNone)
    /\ Returned(2, PyList(<<>>))
    /\ Returned(3, PyList(<<PyNone>>))
    /\ Len(failed_list) = 3
    /\ error_reports = <<>>

\* C8: the progress fractions put on the queue are well defined, lie in
\* [0, 1], never decrease, and the last one of a run that returns is 1.0.
C8_ProgressMonotone ==
    /\ \A k \in 1..Len(notifications) :
           LET f == notifications[k].frac
           IN  f[2] > 0 /\ f[1] >= 0 /\ FracLeq(f, <<1, 1>>)
    /\ \A k \in 1..(Len(notifications) - 1) :
           FracLeq(notifications[k].frac, notifications[k + 1].frac)
    /\ wpc = "done" =>
           /\ Len(notifications) > 0
           /\ notifications[Len(notifications)].frac = <<1, 1>>

\* C8 witness: a run cancelled after two of three tasks has returned.
C8_Witness ==
    /\ wpc = "done"
    /\ total = 3
    /\ abort
    /\ Len(uploadCalls) = 2
    /\ Len(notifications) >= 3

\* C9: upload_books is called for the tasks in list order, each at most once,
\* and the succeeded list, the failed list and the staged lists each follow
\* the task order, with no task in two places or twice in one.
C9_OrderKept ==
    /\ uploadCalls = [k \in 1..Len(uploadCalls) |-> k]
    /\ Range(success_titles) \cup {f[1] : f \in Range(failed_list)}
           \subseteq {Title(k) : k \in 1..Len(uploadReplies)}
    /\ StrictlyIncreasing([k \in 1..Len(success_titles) |->
                               TaskOf(success_titles[k])])
    /\ StrictlyIncreasing([k \in 1..Len(failed_list) |->
                               TaskOf(failed_list[k][1])])
    /\ StrictlyIncreasing(upload_metadata)
    /\ Len(upload_locations) = Len(upload_metadata)
    /\ Range(success_titles) \cap {f[1] : f \in Range(failed_list)} = {}
    /\ Outcomes = Len(uploadReplies)

\* C9 witness: two successes around one failure, all three in order.
C9_Witness ==
    /\ wpc = "done"
    /\ uploadCalls = <<1, 2, 3>>
    /\ success_titles = <<Title(1), Title(3)>>
    /\ failed_list = <<<<Title(2), Unconfirmed>>>>
    /\ upload_metadata = <<1, 3>>

----------------------------------------------------------------------------
(* Properties of the remote reset, checked under SpecSession *)

DeviceMessage(reply) ==
    IF reply.message = Absent THEN "SEND_BOOK failed" ELSE reply.message.s

\* C4: with the acknowledgement flag true and the device answering SEND_BOOK
\* with ERROR, the purge raises an error carrying the device's message (a
\* default text when there is none) and never streams the payload.
C4_ErrorOpcodeRaises ==
    (WaitForAck /\ callReply.opcode = "ERROR") =>
        /\ rpc \in {"handler", "escaped", "done"}
        /\ caught = [type |-> "RuntimeError",
                     arg |-> <<DeviceMessage(callReply)>>]
        /\ streamed = <<>>
        /\ cleaned_path = PyNone

\* C4 witness: the device answered ("ERROR", {"message": "locked"}).
C4_Witness ==
    /\ WaitForAck
    /\ callReply.opcode = "ERROR"
    /\ callReply.message = PyStr("locked")
    /\ rpc = "handler"
    /\ caught.arg = <<"locked">>

\* C5: the purge holds the session lock from before the SEND_BOOK request until
\* the payload is streamed, and holds it nowhere else: it is released whenever
\* the purge has returned or raised.
C5_LockHeldForExchange ==
    /\ rpc \in {"locked", "calling", "streaming"} => sync_lock = "reset"
    /\ rpc \notin {"locked", "calling", "streaming"} => sync_lock = "free"
    /\ (Len(sendBookCalls) > Len(streamed) /\ rpc \notin {"handler", "escaped", "done"})
           => sync_lock = "reset"

\* C5 witness: the ERROR opcode made the purge raise, and the lock is free.
C5_Witness ==
    /\ rpc = "handler"
    /\ callReply.opcode = "ERROR"
    /\ Len(sendBookCalls) = 1
    /\ sync_lock = "free"

WorkerInExchange == wpc = "uploading"

ResetInExchange == rpc \in {"fetching", "calling", "streaming", "deleting"}

\* C6: no two protocol exchanges on the session overlap: the worker's upload
\* is never in progress while a fetch, the SEND_BOOK exchange or a delete of
\* the remote reset is.
C6_NoOverlap == ~(WorkerInExchange /\ ResetInExchange)

\* C10: with the acknowledgement flag true the request asks for a response,
\* nothing is streamed before the response is in, and the purge returns the
\* lpath of the response when it carries one and the original lpath
\* otherwise; with the flag false or absent no response is awaited, the
\* payload is streamed, and the original lpath is returned.
C10_AckFlagHonoured ==
    /\ \A k \in 1..Len(sendBookCalls) :
           /\ sendBookCalls[k].wait_for_response = (can_send_ok = "true")
           /\ sendBookCalls[k].wantsSendOkToSendbook = (can_send_ok = "true")
    /\ (can_send_ok = "true" /\ (rpc = "streaming" \/ streamed # <<>>)) =>
           callReply.opcode = "OK"
    /\ can_send_ok # "true" => callReply.opcode \in {"not called", "None"}
    /\ cleaned_path # PyNone =>
           /\ streamed = <<Payload>>
           /\ cleaned_path =
                  IF can_send_ok = "true" /\ callReply.lpath # Absent
                  THEN callReply.lpath
                  ELSE target

\* C10 witness: the acknowledgement carried a corrected lpath, which the purge
\* returned after streaming.
C10_Witness ==
    /\ can_send_ok = "true"
    /\ callReply.lpath = PyStr("moved.calibre")
    /\ target = PyStr(".metadata.calibre")
    /\ cleaned_path = PyStr("moved.calibre")
    /\ streamed = <<Payload>>

\* C11 as stated: every delete names the catalog file that was located and
\* targeted by the exchange, whatever the acknowledgement carried.
C11_Original == \A k \in 1..Len(deleteCalls) : deleteCalls[k] = target

\* C11 amended: one delete at most is issued, after the exchange that targeted
\* the located catalog file has streamed its payload, and it names the path the
\* exchange returned: the lpath of the acknowledgement when the flag is set and
\* the acknowledgement carries one, the located catalog file otherwise.
C11_DeleteReturnedPath ==
    /\ Len(deleteCalls) <= 1
    /\ \A k \in 1..Len(deleteCalls) :
           /\ streamed = <<Payload>>
           /\ Len(sendBookCalls) = 1
           /\ sendBookCalls[1].lpath = target
           /\ target \in {PyStr(Candidates[c]) : c \in 1..Len(Candidates)}
           /\ deleteCalls[k] =
                  IF can_send_ok = "true" /\ callReply.lpath # Absent
                  THEN callReply.lpath
                  ELSE target

\* C11 witness: the second candidate was located and the acknowledgement
\* carried another lpath, which the delete then named.
C11_Witness ==
    /\ target = PyStr("metadata.calibre")
    /\ callReply.lpath = PyStr("moved.calibre")
    /\ deleteCalls = <<PyStr("moved.calibre")>>

\* C12: a failure of the reset exchange or of the delete never leaves the
\* command as an exception; once the command has ended after a failure, the
\* operator has been shown an error dialog carrying the failure's message, and
\* no delete was issued when the exchange raised.
C12_FailureSurfaced ==
    /\ rpc # "escaped"
    /\ (caught # PyNone /\ rpc = "done") =>
           /\ Len(dialogs) > 0
           /\ dialogs[Len(dialogs)] =
                  [kind |-> "delete_failed", det_msg |-> Str(caught)]
    /\ (caught # PyNone /\ cleaned_path = PyNone) => deleteCalls = <<>>

----------------------------------------------------------------------------
(* Properties of the worker's entry, checked under Spec *)

WorkerStep ==
    \/ WorkerStart
    \/ LoopExit
    \/ LoopNext
    \/ HashTask
    \/ SendBegin
    \/ UploadReturn
    \/ UploadRaise

\* C13 as stated: the worker never raises, whatever the device value.
C13_Original == wpc # "raised"

\* C13 amended: with a truthy device the worker never raises and can always
\* go on until it returns its result tuple; with an absent or falsy device it
\* raises RuntimeError before any progress update or upload, and returns no
\* result.
C13_RaisesOnlyWithoutDevice ==
    /\ device => wpc # "raised"
    /\ (device /\ wpc # "done") => ENABLED WorkerStep
    /\ wpc = "done" => device
    /\ ~device =>
           /\ wpc \in {"start", "raised"}
           /\ uploadCalls = <<>>
           /\ notifications = <<>>
           /\ Outcomes = 0

\* C13 witness: the worker was started with a falsy device and has raised.
C13_Witness ==
    /\ wpc = "raised"
    /\ ~device
    /\ total = 3

(* Claims about _build_tasks *)

\* The preference entries, by position, that the book has.
Matching(book) ==
    { j \in 1..Len(preferred_formats) :
         HasFormat(book.formats, Upper(preferred_formats[j])) }

Automatic(k) ==
    k \in 1..bidx /\ ~Truthy(requested_fmt) /\ Truthy(books[k].formats)

\* C14: with no format requested, the selected format is the first entry of
\* the preference list, upper-cased, that the book has; when no entry matches
\* it is a format of the book; equal inputs give equal selections.
C14_PreferenceOrder ==
    /\ \A k \in 1..bidx : Automatic(k) =>
          LET book == books[k]
          IN  IF Matching(book) # {}
              THEN \E j \in Matching(book) :
                      /\ \A h \in Matching(book) : j <= h
                      /\ selected[k] = PyStr(Upper(preferred_formats[j]))
              ELSE /\ selected[k] # PyNone
                   /\ HasFormat(book.formats, selected[k].s)
    /\ \A k, h \in 1..bidx :
          books[k].formats = books[h].formats => selected[k] = selected[h]

C14_Witness ==
    /\ bpc = "done"
    /\ requested_fmt = PyNone
    /\ preferred_formats = <<"AZW3", "EPUB", "PDF">>
    /\ Len(books) = 2
    /\ books[1].formats = PyList(<<"EPUB", "MOBI">>)
    /\ selected[1] = PyStr("EPUB")
    /\ books[2].formats = PyList(<<"TXT">>)
    /\ selected[2] = PyStr("TXT")

BuiltIds == {built[k].book_id : k \in 1..Len(built)}

SkippedTitles == {skipped[k].title : k \in 1..Len(skipped)}

SkipReason(book) ==
    IF ~Truthy(book.formats) THEN "no formats"
    ELSE IF Truthy(requested_fmt)
            /\ ~HasFormat(book.formats, Upper(requested_fmt.s))
    THEN "no requested format"
    ELSE IF ~book.on_disk THEN "file missing"
    ELSE "none"

C16_SafeName ==
    spc = "done" =>
       /\ name_out.t = "text"
       /\ \A k \in 1..Len(name_out.c) : name_out.c[k] \notin InvalidChars
       /\ Len(name_out.c) <= 100
       /\ Len(name_out.c) >= 1

C16_Witness ==
    /\ spc = "done"
    /\ name_in = Text(<<"/">> \o Run(".", 101) \o <<"?">>)
    /\ name_out = Text(<<"_">> \o Run(".", 99))

(* Claims about prepare_metadata_for_device *)

\* C17: the result's extension is the target format in lower case, its size
\* is the given size, its identifier is not empty (the source's when the
\* source has one, a generated one otherwise), and it has a content hash
\* exactly when one was provided, and then that one.
C17_DeviceFields ==
    mpc = "done" =>
       /\ sanitized.extension \in {PyStr("epub"), PyStr("mobi"), PyStr("pdf")}
       /\ Upper(sanitized.extension.s) = Upper(extension)
       /\ sanitized.size = PyInt(file_size)
       /\ sanitized.uuid.t = "str" /\ sanitized.uuid.s # ""
       /\ IF mi.uuid = PyStr("uuid-of-source")
          THEN sanitized.uuid = mi.uuid
          ELSE sanitized.uuid \in UuidStrings
       /\ IF file_md5 = PyStr("9e107d9d372bb6826bd81d3542a419d6")
          THEN sanitized.md5 = file_md5
          ELSE sanitized.md5 = Absent

C17_Witness ==
    /\ mpc = "done"
    /\ mi.uuid = PyStr("")
    /\ extension = "MOBI"
    /\ file_size = 1
    /\ file_md5 = PyStr("9e107d9d372bb6826bd81d3542a419d6")
    /\ sanitized.extension = PyStr("mobi")
    /\ sanitized.size = PyInt(1)
    /\ sanitized.uuid = PyStr("uuid4-b")
    /\ sanitized.md5 = file_md5

\* C26: prepare_metadata_for_device is a pure transform: for every source
\* record, with or without deepcopy_metadata, every field of the source is
\* after the call what it was before, and the returned record is another
\* object than the source.
C26_PureTransform ==
    mpc = "done" =>
       /\ \A field \in DOMAIN mi : mi_after[field] = mi[field]
       /\ ~ReturnsSourceObject

(* Claims about job_finished and _sync_books_to_device *)

NothingStaged ==
    job.result.upload_locations = <<>> \/ job.result.upload_metadata = <<>>

DeviceDropped == gui.dm # "device"

BookListsUnavailable == gui.booklists # "lists"

MergeRaised ==
    /\ ~NothingStaged /\ ~DeviceDropped /\ ~BookListsUnavailable
    /\ gui.add_books_to_metadata = "raises"

\* C18: _sync_books_to_device never raises; with nothing staged, the device
\* gone or no BookLists it calls neither the merge nor set_books_in_library
\* and the BookList stays as it was; in these cases and when the merge raises,
\* job_finished goes on with the worker's succeeded and failed lists as they
\* were returned, and its summary shows them.
C18_BestEffort ==
    /\ jpc # "raised"
    /\ jpc \in {"start", "sync", "summary"} => ENABLED NextSync
    /\ (jpc \in {"summary", "done"} /\ ~job.failed) =>
          /\ (NothingStaged \/ DeviceDropped \/ BookListsUnavailable) =>
                /\ booklist = BookListAtStart
                /\ \A k \in 1..Len(syncCalls) : syncCalls[k] = "print"
          /\ shown.success_titles = job.result.success_titles
          /\ shown.failed_list = job.result.failed_list
    /\ (jpc = "done" /\ ~job.failed) =>
          IF job.result.failed_list # <<>>
          THEN /\ Len(jdialogs) = 1
               /\ jdialogs[1].sent = Len(job.result.success_titles)
               /\ jdialogs[1].failed_list = job.result.failed_list
          ELSE jdialogs = <<>>

C18_Witness ==
    /\ jpc = "done"
    /\ ~job.failed
    /\ MergeRaised
    /\ job.result.success_titles = <<"T2">>
    /\ job.result.failed_list = <<(<<"T1", Unconfirmed>>)>>
    /\ syncCalls = <<"add_books_to_metadata", "print">>
    /\ Len(jdialogs) = 1
    /\ jdialogs[1].sent = 1
    /\ jdialogs[1].failed_list = <<(<<"T1", Unconfirmed>>)>>

(* Claims about _delete_local_metadata_files *)

InList(path, list) == \E k \in 1..Len(list) : list[k] = path

InErrors(path, list) == \E k \in 1..Len(list) : list[k][1] = path

C19_NothingFound ==
    \A n \in 1..Len(purges) :
       purges[n].found = <<>> =>
          purges[n].deleted = <<>> /\ purges[n].errors = <<>>

C19_VanishedUnreported ==
    \A n \in 1..Len(purges) : \A path \in purges[n].vanished :
       ~InList(path, purges[n].deleted) /\ ~InErrors(path, purges[n].errors)

C19_SecondPurgeEmpty ==
    \A n \in 2..Len(purges) :
       purges[n - 1].errors = <<>> =>
          purges[n].deleted = <<>> /\ purges[n].errors = <<>>

C19_ExactlyOneList ==
    \A n \in 1..Len(purges) : \A k \in 1..Len(purges[n].found) :
       LET path == purges[n].found[k]
       IN  path \notin purges[n].vanished =>
              (InList(path, purges[n].deleted)
                  # InErrors(path, purges[n].errors))

\* C19: a purge that finds no file returns no deletion and no error; a file
\* that vanishes between discovery and removal is in neither list; every
\* other discovered file is in exactly one of deleted and errors; a purge
\* right after one without errors returns no deletion and no error.
C19_AbsentIsNonEvent ==
    /\ C19_NothingFound
    /\ C19_VanishedUnreported
    /\ C19_ExactlyOneList
    /\ C19_SecondPurgeEmpty

(* Claims about send_raw_selected *)

C21_MergeAfterBatch ==
    \A k \in 1..Len(merges) :
       /\ merges[k].beside = {}
       /\ merges[k].job \notin running
       /\ \E h \in 1..handled :
             finished[h].job = merges[k].job /\ ~finished[h].failed

(* Further properties of the batch worker, checked under Spec *)

\* The device answered the k-th upload_books call with a non-empty list whose
\* first element is non-empty.
GaveLocation(k) ==
    /\ uploadReplies[k].kind = "return"
    /\ Truthy(uploadReplies[k].value)
    /\ Truthy(uploadReplies[k].value.v[1])

NotFound == rpc \notin {"idle", "fetching"} /\ target = PyNone /\ device

\* The operator declined: a target was found and the purge was never entered.
Declined == rpc = "done" /\ target # PyNone /\ lpath = PyNone

\* C23: the candidates are fetched in the order '.metadata.calibre',
\* 'metadata.calibre'; the target is the first whose fetch returned; none is
\* found exactly when both fetches raised; with no target, or when the
\* operator declines, there is no SEND_BOOK exchange and no delete.
C23_LocateInOrder ==
    /\ Len(fetchCalls) <= 2
    /\ \A k \in 1..Len(fetchCalls) :
          fetchCalls[k] = <<".metadata.calibre", "metadata.calibre">>[k]
    /\ target # PyNone =>
          /\ fetchCalls # <<>>
          /\ target = PyStr(fetchCalls[Len(fetchCalls)])
    /\ NotFound =>
          /\ fetchCalls = <<".metadata.calibre", "metadata.calibre">>
          /\ rpc = "done"
          /\ dialogs = <<[kind |-> "not_found"]>>
    /\ (\E k \in 1..Len(dialogs) : dialogs[k].kind = "not_found") => NotFound
    /\ (NotFound \/ Declined \/ rpc \in {"idle", "fetching", "confirm"}) =>
          /\ sendBookCalls = <<>>
          /\ streamed = <<>>
          /\ deleteCalls = <<>>
          /\ sync_lock # "reset"

C23_Witness ==
    /\ Declined
    /\ fetchCalls = <<".metadata.calibre", "metadata.calibre">>
    /\ target = PyStr("metadata.calibre")
    /\ sendBookCalls = <<>>
    /\ deleteCalls = <<>>

(* Claims about the error reports *)

\* C27: every exception raised during a send appends exactly one error
\* report, and the report carries the remediation note exactly when the
\* failure is a key-lookup failure (a KeyError, for any key, which covers
\* the missing 'extension' field); the worker takes no recovery action.
C27_NoteOnKeyErrors ==
    LET raised == SelectSeq(uploadReplies, LAMBDA r : r.kind = "raise")
    IN  /\ Len(error_reports) = Len(raised)
        /\ \A k \in 1..Len(error_reports) :
              /\ error_reports[k].message = Str(raised[k].value)
              /\ error_reports[k].note <=> raised[k].value.type = "KeyError"
        /\ fetchCalls = <<>> /\ deleteCalls = <<>> /\ sendBookCalls = <<>>

(* Claims about the integrity hash *)

\* The tasks for which calculate_md5 was called, in call order: the worker
\* announces each call on the progress queue.
HashAttempts ==
    LET said == SelectSeq(notifications, LAMBDA n : n.msg = "md5")
    IN  [k \in 1..Len(said) |-> said[k].frac[1] + 1]

\* C28: the tasks come from task building without a hash; the worker calls
\* the hash function for a task only if its verify flag is set, before the
\* upload call of that task, and attaches the hash when the call returns;
\* the upload call follows whether the hash call returned or raised; a task
\* whose flag is unset, or that is not attempted after a cancellation, gets
\* no hash.
C28_HashInTransferPhase ==
    LET hashed == Range(HashAttempts)
        uploaded == Range(uploadCalls)
    IN  /\ \A k \in 1..total :
              /\ md5[k] => k \in hashed
              /\ k \in hashed => tasks[k].verify_md5
              /\ (k \in uploaded /\ tasks[k].verify_md5) => k \in hashed
              /\ (k \in hashed /\ k \notin uploaded) =>
                     wpc = "send" /\ k = CurrentTask /\ ENABLED SendBegin
        /\ StrictlyIncreasing(HashAttempts)
        /\ \A p \in 1..Len(notifications) :
              (notifications[p].msg = "send" /\ tasks[1].verify_md5) =>
                 /\ p > 1
                 /\ notifications[p - 1] =
                        Progress(notifications[p].frac, "md5")
        /\ wpc = "start" => \A k \in 1..total : ~md5[k]
        /\ wpc = "done" => hashed \subseteq uploaded

\* C28 witness: three tasks to verify, cancelled after the second; the hash
\* of task 1 was attached, the hash call of task 2 raised and task 2 was
\* uploaded all the same, task 3 was neither hashed nor uploaded.
C28_Witness ==
    /\ wpc = "done"
    /\ total = 3
    /\ tasks[1].verify_md5
    /\ abort
    /\ HashAttempts = <<1, 2>>
    /\ md5 = <<TRUE, FALSE, FALSE>>
    /\ uploadCalls = <<1, 2>>

(* Claims about the worker's accounting *)

GrowsOnly(s, t) == Len(s) <= Len(t) /\ \A k \in 1..Len(s) : t[k] = s[k]

\* C29: in every state of the worker, succeeded titles plus failed entries
\* are as many as the upload calls that have returned or raised, and at most
\* as many as the tasks; error reports are at most as many as failed
\* entries; staged locations are at most as many as succeeded titles; and
\* no step makes any of these lists shorter or changes an entry.
C29_Accounting ==
    /\ [](/\ Outcomes = Len(uploadReplies)
          /\ Outcomes <= total
          /\ Len(error_reports) <= Len(failed_list)
          /\ Len(upload_locations) <= Len(success_titles)
          /\ Len(upload_metadata) = Len(upload_locations))
    /\ [][/\ GrowsOnly(success_titles, success_titles')
          /\ GrowsOnly(failed_list, failed_list')
          /\ GrowsOnly(error_reports, error_reports')
          /\ GrowsOnly(upload_locations, upload_locations')
          /\ GrowsOnly(upload_metadata, upload_metadata')]_vars

\* C29 witness: three tasks, one sent and staged, one unconfirmed, one
\* raised: three outcomes, two failed entries, one error report.
C29_Witness ==
    /\ wpc = "done"
    /\ total = 3
    /\ Len(uploadReplies) = 3
    /\ Len(success_titles) = 1
    /\ Len(failed_list) = 2
    /\ Len(error_reports) = 1
    /\ Len(upload_locations) = 1

(* Claims about _build_filename *)

\* C24: the file name of a task, before its extension, holds none of the
\* nine unsafe characters and has at most 100 characters, whatever the
\* template and the author, title and series.
C24_SafeStem ==
    (fpc = "done" /\ filename.kind = "returned") =>
       /\ \A k \in 1..Len(filename.stem) : filename.stem[k] \notin InvalidChars
       /\ Len(filename.stem) <= 100

\* C25: _build_filename returns a file name for every template, and it is
\* the 'author - title' pattern whenever the template cannot be resolved.
C25_NeverRaises ==
    fpc = "done" =>
       /\ filename.kind = "returned"
       /\ Len(filename.stem) >= 1
       /\ (\E k \in 1..Len(template) :
              template[k].part \notin {"literal", "named"}
              \/ (template[k].part = "named"
                  /\ template[k].name \notin
                        {"author", "title", "series", "series_index"}))
          => filename.fallback

====
